---- MODULE Spec2Model ----
(***************************************************************************)
(* Vehicle supervisor (Supervisors.Vehicle Task) of DUNE, modelled from    *)
(* its source.  Every consume() handler and the periodic task() are one    *)
(* action each; the helpers they call (reset, changeMode, answer, ...) are *)
(* operators on a record holding the fields of the Task object.            *)
(*                                                                         *)
(* Representation:                                                         *)
(*  - a bit mask (control_loops, flags) is the set of the names of its set *)
(*    bits: | is \cup, & ~m is \ m, "!= 0" is "# {}";                      *)
(*  - a std::string that is a comma separated list is the sequence of its  *)
(*    tokens, the separator "," being a token; String::split drops them;   *)
(*  - last_error is a sequence of string fragments, <<>> being the empty   *)
(*    string;                                                              *)
(*  - Clock::get() reads the variable now;                                  *)
(*  - m_err_timer only rate-limits a log line and is left out.             *)
(***************************************************************************)
EXTENDS Integers, Sequences, FiniteSets, TLC

\* ------------------------------------------------------------------ bounds
\* Largest value of the clock.
MaxTime == 2

\* ------------------------------------------------------- program constants
\* c_man_timeout: maneuver request timeout.
c_man_timeout == 1
\* 0xFFFF, the "unknown" maneuver_eta.
EtaUnknown == 65535
\* 0xFFFF as maneuver_type: no maneuver.
NoManeuver == "0xFFFF"
DUNE_IMC_TELEOPERATION == "Teleoperation"
DUNE_IMC_LOITER == "Loiter"

VS_SERVICE == "SERVICE"
VS_CALIBRATION == "CALIBRATION"
VS_ERROR == "ERROR"
VS_MANEUVER == "MANEUVER"
VS_EXTERNAL == "EXTERNAL"
OperationModes == {VS_SERVICE, VS_CALIBRATION, VS_ERROR, VS_MANEUVER, VS_EXTERNAL}

VFLG_MANEUVER_DONE == "VFLG_MANEUVER_DONE"

CL_PATH == "CL_PATH"
CL_TELEOPERATION == "CL_TELEOPERATION"
CL_NO_OVERRIDE == "CL_NO_OVERRIDE"
Loops == {CL_PATH, CL_TELEOPERATION, CL_NO_OVERRIDE}

VC_REQUEST == "VC_REQUEST"
VC_SUCCESS == "VC_SUCCESS"
VC_FAILURE == "VC_FAILURE"
VC_EXEC_MANEUVER == "VC_EXEC_MANEUVER"
VC_STOP_MANEUVER == "VC_STOP_MANEUVER"
VC_START_CALIBRATION == "VC_START_CALIBRATION"
VC_STOP_CALIBRATION == "VC_STOP_CALIBRATION"
Commands == {VC_EXEC_MANEUVER, VC_STOP_MANEUVER, VC_START_CALIBRATION, VC_STOP_CALIBRATION}

\* ------------------------------------------------------------ input domains
RequestIds == {41, 42}
\* Time stamps: those the consumed messages carry, and the readings of
\* Clock::getSinceEpoch().
Stamps == {1}
\* Scope references carried by the ControlLoops messages.
ScopeRefs == {0, 1}
CalibTimes == {0, 1}
Etas == {10}
\* A null InlineMessage.
NullManeuver == [id |-> "null", stamp |-> -1]
\* Values of the "Safe Entities" parameter.
SafeEntsConfigs == {<<>>, <<"IMU">>}

VARIABLES
  m_vs,            \* IMC::VehicleState m_vs
  m_switch_time,   \* timer of calibration and maneuver requests, -1 = unarmed
  m_in_safe_plan,  \* currently performing a safe plan
  m_scope_ref,     \* control loops last reference time
  m_calibration,   \* IMC::Calibration m_calibration
  safe_ents,       \* m_args.safe_ents
  now              \* the clock

\* The maneuver tasks (DUNE::Maneuvers::Maneuver and Maneuver.Loiter), one
\* thread each.
VARIABLES
  is_active,       \* per maneuver task: Task::isActive()
  s_man_lock,      \* owner of the process-wide maneuver mutex, or "free"
  s_amask,         \* the process-wide mask of active control loops
  m_mcs,           \* per maneuver task: m_mcs.state
  m_duration,      \* per maneuver task: Loiter m_duration
  m_end_time,      \* per maneuver task: Loiter m_end_time
  man_pc,          \* per maneuver task: where its thread is
  man_msg,         \* per maneuver task: the maneuver startManeuver is handling
  man_queue        \* per maneuver task: messages delivered and not yet consumed

manVars == <<is_active, s_man_lock, s_amask, m_mcs, m_duration, m_end_time, man_pc,
             man_msg, man_queue>>

\* The path controller (DUNE::Control::PathController) and its bottom tracker.
VARIABLES
  btd_enabled,     \* m_btd.enabled, the parameter "Bottom Track -- Enabled"
  pc_active,       \* Task::isActive() of the path controller
  pc,              \* the fields of the PathController
  btrack,          \* the fields of the BottomTracker m_btrack
  pc_loop,         \* messages the controller dispatched with DF_LOOP_BACK, not yet consumed
  brake_op,        \* op of the last Brake the controller or its tracker dispatched
  mission          \* the mission the controller is run in

pathConf == <<btd_enabled, mission>>

pathVars == <<pathConf, pc_active, pc, btrack, pc_loop, brake_op>>

\* The acoustic modem task (Sensors::MLBLTracker::Task).
VARIABLES
  m_op,            \* the operation in progress
  m_op_deadline,   \* its deadline, -1 when none is armed
  m_acop,          \* the last AcousticOperation request taken
  m_acop_out       \* the AcousticOperation event last filled in

modemVars == <<m_op, m_op_deadline, m_acop, m_acop_out>>

vars == <<m_vs, m_switch_time, m_in_safe_plan, m_scope_ref, m_calibration,
          safe_ents, now, manVars, pathVars, modemVars>>

OP_NONE == "OP_NONE"
OP_PING_NB == "OP_PING_NB"
OP_PING_MM == "OP_PING_MM"
OP_ABORT == "OP_ABORT"

\* The modem task after construction.
ModemTaskInit ==
  /\ m_op = OP_NONE
  /\ m_op_deadline = -1
  /\ m_acop = [op |-> "AOP_ABORT", system |-> ""]
  /\ m_acop_out = [op |-> "AOP_ABORT", system |-> ""]

\* ------------------------------------------------------------ the Task object
\* The fields of the Task a handler reads and writes.  bus collects, in order,
\* the messages the handler dispatches: a handler applied to Cur yields the
\* Task after it ran together with everything it published.
Cur ==
  [m_vs |-> m_vs, m_switch_time |-> m_switch_time, m_in_safe_plan |-> m_in_safe_plan,
   m_scope_ref |-> m_scope_ref, m_calibration |-> m_calibration,
   safe_ents |-> safe_ents, now |-> now, bus |-> <<>>]

dispatch(t, m) == [t EXCEPT !.bus = Append(@, m)]

m_stop == [msg |-> "StopManeuver"]
m_idle == [msg |-> "IdleManeuver", duration |-> 0]
VehicleStateMsg(t) == [msg |-> "VehicleState", vs |-> t.m_vs]

modeIs(t, mode) == t.m_vs.op_mode = mode
serviceMode(t) == modeIs(t, VS_SERVICE)
maneuverMode(t) == modeIs(t, VS_MANEUVER)
errorMode(t) == modeIs(t, VS_ERROR)
externalMode(t) == modeIs(t, VS_EXTERNAL)
calibrationMode(t) == modeIs(t, VS_CALIBRATION)
maneuverIs(t, id) == t.m_vs.maneuver_type = id
teleoperationOn(t) == maneuverIs(t, DUNE_IMC_TELEOPERATION)
nonOverridableLoops(t) ==
  (t.m_vs.control_loops \cap {CL_TELEOPERATION, CL_NO_OVERRIDE}) # {}

\* String::split(s, ",", ents): the tokens between the separators.
Split(s) == SelectSeq(s, LAMBDA x : x # ",")

\* Some element of the sequence a is an element of the sequence b.
Shares(a, b) == \E i \in 1..Len(a) : \E j \in 1..Len(b) : a[i] = b[j]

entityErrorAnyCount(t) == t.m_vs.error_count # 0

entityError(t) ==
  IF t.m_vs.error_count # 0
  THEN IF Len(t.safe_ents) # 0 /\ t.m_in_safe_plan
       THEN Shares(Split(t.m_vs.error_ents), t.safe_ents)
       ELSE TRUE
  ELSE FALSE

\* reset that leaves m_vs.control_loops as it is.
resetKeepsLoops(t) ==
  LET t1 == IF maneuverMode(t) THEN dispatch(t, m_stop) ELSE t
      t2 == [t1 EXCEPT !.m_in_safe_plan = FALSE]
  IN dispatch(t2, m_idle)

reset(t) ==
  LET t1 == IF maneuverMode(t) THEN dispatch(t, m_stop) ELSE t
      t2 == [t1 EXCEPT !.m_in_safe_plan = FALSE, !.m_vs.control_loops = {}]
  IN dispatch(t2, m_idle)

ManeuverMsg(maneuver) == [msg |-> "Maneuver", id |-> maneuver.id, stamp |-> maneuver.stamp]

\* changeMode that leaves the switch timer as it is.
changeModeKeepsTimer(t, s, maneuver) ==
  LET s1 == IF s = VS_SERVICE /\ entityError(t) THEN VS_ERROR ELSE s
      t1 == IF t.m_vs.op_mode # s
            THEN LET a == [t EXCEPT !.m_vs.op_mode = s1]
                 IN IF ~maneuverMode(a)
                    THEN [a EXCEPT !.m_vs.maneuver_type = NoManeuver,
                                   !.m_vs.maneuver_stime = -1,
                                   !.m_vs.maneuver_eta = EtaUnknown,
                                   !.m_vs.flags = @ \ {VFLG_MANEUVER_DONE}]
                    ELSE a
            ELSE t
      t2 == IF maneuverMode(t1)
            THEN [dispatch(t1, ManeuverMsg(maneuver)) EXCEPT
                    !.m_vs.maneuver_stime = maneuver.stamp,
                    !.m_vs.maneuver_type = maneuver.id,
                    !.m_vs.maneuver_eta = EtaUnknown,
                    !.m_vs.last_error = <<>>,
                    !.m_vs.last_error_time = -1,
                    !.m_vs.flags = @ \ {VFLG_MANEUVER_DONE}]
            ELSE t1
  IN dispatch(t2, VehicleStateMsg(t2))

\* changeMode that keeps last_error and last_error_time when a maneuver starts.
changeModeKeepsError(t, s, maneuver) ==
  LET s1 == IF s = VS_SERVICE /\ entityError(t) THEN VS_ERROR ELSE s
      t1 == IF t.m_vs.op_mode # s
            THEN LET a == [t EXCEPT !.m_vs.op_mode = s1]
                 IN IF ~maneuverMode(a)
                    THEN [a EXCEPT !.m_vs.maneuver_type = NoManeuver,
                                   !.m_vs.maneuver_stime = -1,
                                   !.m_vs.maneuver_eta = EtaUnknown,
                                   !.m_vs.flags = @ \ {VFLG_MANEUVER_DONE}]
                    ELSE a
            ELSE t
      t2 == IF maneuverMode(t1)
            THEN [dispatch(t1, ManeuverMsg(maneuver)) EXCEPT
                    !.m_vs.maneuver_stime = maneuver.stamp,
                    !.m_vs.maneuver_type = maneuver.id,
                    !.m_vs.maneuver_eta = EtaUnknown,
                    !.m_vs.flags = @ \ {VFLG_MANEUVER_DONE}]
            ELSE t1
      t3 == [t2 EXCEPT !.m_switch_time = -1]
  IN dispatch(t3, VehicleStateMsg(t3))

changeMode(t, s, maneuver) ==
  LET s1 == IF s = VS_SERVICE /\ entityError(t) THEN VS_ERROR ELSE s
      t1 == IF t.m_vs.op_mode # s
            THEN LET a == [t EXCEPT !.m_vs.op_mode = s1]
                 IN IF ~maneuverMode(a)
                    THEN [a EXCEPT !.m_vs.maneuver_type = NoManeuver,
                                   !.m_vs.maneuver_stime = -1,
                                   !.m_vs.maneuver_eta = EtaUnknown,
                                   !.m_vs.flags = @ \ {VFLG_MANEUVER_DONE}]
                    ELSE a
            ELSE t
      t2 == IF maneuverMode(t1)
            THEN [dispatch(t1, ManeuverMsg(maneuver)) EXCEPT
                    !.m_vs.maneuver_stime = maneuver.stamp,
                    !.m_vs.maneuver_type = maneuver.id,
                    !.m_vs.maneuver_eta = EtaUnknown,
                    !.m_vs.last_error = <<>>,
                    !.m_vs.last_error_time = -1,
                    !.m_vs.flags = @ \ {VFLG_MANEUVER_DONE}]
            ELSE t1
      t3 == [t2 EXCEPT !.m_switch_time = -1]
  IN dispatch(t3, VehicleStateMsg(t3))

\* ----------------------------------------------------------------- handlers
consumeAbort(t, msg) ==
  LET t1 == [t EXCEPT !.m_vs.last_error = <<"got abort request">>,
                      !.m_vs.last_error_time = msg.epoch]
  IN IF ~errorMode(t1)
     THEN LET t2 == reset(t1)
          IN IF ~externalMode(t2) \/ ~nonOverridableLoops(t2)
             THEN changeMode(t2, VS_SERVICE, NullManeuver)
             ELSE t2
     ELSE t1

onEnabledControlLoops(t) ==
  CASE t.m_vs.op_mode = VS_SERVICE -> changeMode(t, VS_EXTERNAL, NullManeuver)
    [] t.m_vs.op_mode = VS_ERROR ->
         IF nonOverridableLoops(t)
         THEN changeMode(t, VS_EXTERNAL, NullManeuver)
         ELSE reset(t)
    [] OTHER -> t

\* onDisabledControlLoops that stays in the mode it is in.
onDisabledControlLoopsStays(t) == t

onDisabledControlLoops(t) ==
  IF externalMode(t) THEN changeMode(t, VS_SERVICE, NullManeuver) ELSE t

\* consumeControlLoops that calls onEnabledControlLoops whenever loops are
\* enabled after the message, whether or not some were before.
consumeControlLoopsLevel(t, msg) ==
  IF msg.scope_ref < t.m_scope_ref
  THEN t
  ELSE LET t1 == [t EXCEPT !.m_scope_ref = msg.scope_ref]
           was == t1.m_vs.control_loops
       IN IF msg.enable = "CL_ENABLE"
          THEN LET t2 == [t1 EXCEPT !.m_vs.control_loops = @ \cup msg.mask]
               IN IF t2.m_vs.control_loops # {}
                  THEN onEnabledControlLoops(t2)
                  ELSE t2
          ELSE LET t2 == [t1 EXCEPT !.m_vs.control_loops = @ \ msg.mask]
               IN IF was # {} /\ t2.m_vs.control_loops = {}
                  THEN onDisabledControlLoops(t2)
                  ELSE t2

\* consumeControlLoops that stores the enabled mask instead of or-ing it in.
consumeControlLoopsAssign(t, msg) ==
  IF msg.scope_ref < t.m_scope_ref
  THEN t
  ELSE LET t1 == [t EXCEPT !.m_scope_ref = msg.scope_ref]
           was == t1.m_vs.control_loops
       IN IF msg.enable = "CL_ENABLE"
          THEN LET t2 == [t1 EXCEPT !.m_vs.control_loops = msg.mask]
               IN IF was = {} /\ t2.m_vs.control_loops # {}
                  THEN onEnabledControlLoops(t2)
                  ELSE t2
          ELSE LET t2 == [t1 EXCEPT !.m_vs.control_loops = @ \ msg.mask]
               IN IF was # {} /\ t2.m_vs.control_loops = {}
                  THEN onDisabledControlLoops(t2)
                  ELSE t2

consumeControlLoops(t, msg) ==
  IF msg.scope_ref < t.m_scope_ref
  THEN t
  ELSE LET t1 == [t EXCEPT !.m_scope_ref = msg.scope_ref]
           was == t1.m_vs.control_loops
       IN IF msg.enable = "CL_ENABLE"
          THEN LET t2 == [t1 EXCEPT !.m_vs.control_loops = @ \cup msg.mask]
               IN IF was = {} /\ t2.m_vs.control_loops # {}
                  THEN onEnabledControlLoops(t2)
                  ELSE t2
          ELSE LET t2 == [t1 EXCEPT !.m_vs.control_loops = @ \ msg.mask]
               IN IF was # {} /\ t2.m_vs.control_loops = {}
                  THEN onDisabledControlLoops(t2)
                  ELSE t2

\* consumeEntityMonitoringState that enters ERROR from EXTERNAL or MANEUVER
\* without reset().
consumeEntityMonitoringStateNoReset(t, msg) ==
  LET count == (msg.ccount + msg.ecount) % 256
      t1 == [t EXCEPT !.m_vs.error_count = count]
      t2 == IF count # 0 /\ msg.last_error_time > t1.m_vs.last_error_time
            THEN [t1 EXCEPT !.m_vs.last_error = <<msg.last_error>>,
                            !.m_vs.last_error_time = msg.last_error_time]
            ELSE t1
      ents1 == IF msg.ccount # 0 THEN msg.cnames ELSE <<>>
      ents2 == IF msg.ecount # 0
               THEN ents1 \o (IF msg.ccount # 0 THEN <<",">> ELSE <<>>) \o msg.enames
               ELSE ents1
      t3 == [t2 EXCEPT !.m_vs.error_ents = ents2]
  IN IF errorMode(t3)
     THEN IF t3.m_vs.error_count = 0
          THEN changeMode(t3, VS_SERVICE, NullManeuver)
          ELSE t3
     ELSE IF externalMode(t3) \/ maneuverMode(t3)
          THEN IF entityError(t3) /\ ~nonOverridableLoops(t3) /\ ~teleoperationOn(t3)
               THEN changeMode(t3, VS_ERROR, NullManeuver)
               ELSE t3
          ELSE IF entityError(t3) /\ ~calibrationMode(t3)
               THEN changeMode(reset(t3), VS_ERROR, NullManeuver)
               ELSE t3

consumeEntityMonitoringState(t, msg) ==
  LET count == (msg.ccount + msg.ecount) % 256
      t1 == [t EXCEPT !.m_vs.error_count = count]
      t2 == IF count # 0 /\ msg.last_error_time > t1.m_vs.last_error_time
            THEN [t1 EXCEPT !.m_vs.last_error = <<msg.last_error>>,
                            !.m_vs.last_error_time = msg.last_error_time]
            ELSE t1
      ents1 == IF msg.ccount # 0 THEN msg.cnames ELSE <<>>
      ents2 == IF msg.ecount # 0
               THEN ents1 \o (IF msg.ccount # 0 THEN <<",">> ELSE <<>>) \o msg.enames
               ELSE ents1
      t3 == [t2 EXCEPT !.m_vs.error_ents = ents2]
  IN IF errorMode(t3)
     THEN IF t3.m_vs.error_count = 0
          THEN changeMode(t3, VS_SERVICE, NullManeuver)
          ELSE t3
     ELSE IF externalMode(t3) \/ maneuverMode(t3)
          THEN IF entityError(t3) /\ ~nonOverridableLoops(t3) /\ ~teleoperationOn(t3)
               THEN changeMode(reset(t3), VS_ERROR, NullManeuver)
               ELSE t3
          ELSE IF entityError(t3) /\ ~calibrationMode(t3)
               THEN changeMode(reset(t3), VS_ERROR, NullManeuver)
               ELSE t3

consumeManeuverControlState(t, msg) ==
  IF msg.source # "local"
  THEN t
  ELSE IF ~maneuverMode(t)
  THEN t
  ELSE CASE msg.state = "MCS_EXECUTING" ->
              IF msg.eta # t.m_vs.maneuver_eta
              THEN LET t1 == [t EXCEPT !.m_vs.maneuver_eta = msg.eta]
                   IN dispatch(t1, VehicleStateMsg(t1))
              ELSE t
         [] msg.state = "MCS_DONE" ->
              LET t1 == [t EXCEPT !.m_vs.maneuver_eta = 0,
                                  !.m_vs.flags = @ \cup {VFLG_MANEUVER_DONE}]
                  t2 == dispatch(t1, VehicleStateMsg(t1))
              IN [t2 EXCEPT !.m_switch_time = t.now]
         [] msg.state = "MCS_ERROR" ->
              LET t1 == [t EXCEPT
                           !.m_vs.last_error =
                              <<t.m_vs.maneuver_type, " maneuver error: ", msg.info>>,
                           !.m_vs.last_error_time = msg.stamp]
              IN reset(changeMode(t1, VS_SERVICE, NullManeuver))
         [] OTHER -> t

consumePlanControl(t, msg) ==
  IF msg.type = "PC_REQUEST" /\ msg.op = "PC_START"
  THEN [t EXCEPT !.m_in_safe_plan = ("FLG_IGNORE_ERRORS" \in msg.flags)]
  ELSE t

ReplyMsg(cmd, type, desc) ==
  [msg |-> "VehicleCommand", type |-> type, command |-> cmd.command,
   request_id |-> cmd.request_id, info |-> desc]

answer(t, cmd, type, desc) == dispatch(t, ReplyMsg(cmd, type, desc))

requestOK(t, cmd, desc) == answer(t, cmd, VC_SUCCESS, desc)

requestFailed(t, cmd, desc) == answer(t, cmd, VC_FAILURE, desc)

CalibrationMsg(t) == [msg |-> "Calibration", duration |-> t.m_calibration.duration]

startCalibration(t, msg) ==
  IF externalMode(t)
  THEN requestFailed(t, msg, "cannot calibrate: vehicle is in external mode")
  ELSE LET t1 == IF maneuverMode(t) THEN reset(t) ELSE t
           t2 == changeMode(t1, VS_CALIBRATION, NullManeuver)
           t3 == [t2 EXCEPT !.m_calibration.duration = msg.calib_time]
           t4 == dispatch(t3, CalibrationMsg(t3))
           t5 == [t4 EXCEPT !.m_switch_time = t.now]
       IN requestOK(t5, msg, "calibrating vehicle")

\* stopCalibration whose early return sends no reply.
stopCalibrationSilent(t, msg) ==
  IF ~calibrationMode(t)
  THEN t
  ELSE changeMode(requestOK(t, msg, "stopped calibration"), VS_SERVICE, NullManeuver)

stopCalibration(t, msg) ==
  IF ~calibrationMode(t)
  THEN requestOK(t, msg, "cannot stop calibration: vehicle is not calibrating")
  ELSE changeMode(requestOK(t, msg, "stopped calibration"), VS_SERVICE, NullManeuver)

\* startManeuver that stops the running maneuver before it looks at the mode.
startManeuverStopFirst(t, cmd) ==
  IF cmd.maneuver = NullManeuver
  THEN requestFailed(t, cmd, "no maneuver specified")
  ELSE LET t1 == dispatch(t, m_stop)
       IN IF externalMode(t1)
          THEN requestFailed(t1, cmd, "maneuver cannot be started in current mode")
          ELSE requestOK(changeMode(t1, VS_MANEUVER, cmd.maneuver), cmd, "maneuver started")

startManeuver(t, cmd) ==
  IF cmd.maneuver = NullManeuver
  THEN requestFailed(t, cmd, "no maneuver specified")
  ELSE IF externalMode(t)
  THEN requestFailed(t, cmd, "maneuver cannot be started in current mode")
  ELSE LET t1 == dispatch(t, m_stop)
           t2 == changeMode(t1, VS_MANEUVER, cmd.maneuver)
       IN requestOK(t2, cmd, "maneuver started")

stopManeuver(t, cmd) ==
  LET t1 == IF ~errorMode(t)
            THEN LET r == reset(t)
                 IN IF ~externalMode(r) \/ ~nonOverridableLoops(r)
                    THEN changeMode(r, VS_SERVICE, NullManeuver)
                    ELSE r
            ELSE t
  IN requestOK(t1, cmd, "OK")

consumeVehicleCommand(t, cmd) ==
  IF cmd.type # VC_REQUEST
  THEN t
  ELSE CASE cmd.command = VC_EXEC_MANEUVER -> startManeuver(t, cmd)
         [] cmd.command = VC_STOP_MANEUVER -> stopManeuver(t, cmd)
         [] cmd.command = VC_START_CALIBRATION -> startCalibration(t, cmd)
         [] cmd.command = VC_STOP_CALIBRATION -> stopCalibration(t, cmd)
         [] OTHER -> t

\* task whose maneuver-done window ends at c_man_timeout, not after it.
taskAtWindow(t) ==
  LET t0 == dispatch(t, VehicleStateMsg(t))
  IN IF t0.m_switch_time < 0
     THEN t0
     ELSE LET delta == t0.now - t0.m_switch_time
          IN IF calibrationMode(t0) /\ delta > t0.m_calibration.duration
             THEN [changeMode(t0, VS_SERVICE, NullManeuver) EXCEPT !.m_switch_time = -1]
             ELSE IF maneuverMode(t0) /\ delta >= c_man_timeout
             THEN [changeMode(reset(t0), VS_SERVICE, NullManeuver)
                     EXCEPT !.m_switch_time = -1]
             ELSE t0

task(t) ==
  LET t0 == dispatch(t, VehicleStateMsg(t))
  IN IF t0.m_switch_time < 0
     THEN t0
     ELSE LET delta == t0.now - t0.m_switch_time
          IN IF calibrationMode(t0) /\ delta > t0.m_calibration.duration
             THEN [changeMode(t0, VS_SERVICE, NullManeuver) EXCEPT !.m_switch_time = -1]
             ELSE IF maneuverMode(t0) /\ delta > c_man_timeout
             THEN [changeMode(reset(t0), VS_SERVICE, NullManeuver)
                     EXCEPT !.m_switch_time = -1]
             ELSE t0

\* ------------------------------------------------------------------- inputs
Maneuvers == {[id |-> i, stamp |-> ts] : i \in {DUNE_IMC_LOITER, DUNE_IMC_TELEOPERATION}, ts \in Stamps}

VehicleCommandMsg(ty, c, r, m, ct) ==
  [kind |-> "VehicleCommand", type |-> ty, command |-> c, request_id |-> r,
   maneuver |-> m, calib_time |-> ct]

VehicleCommands ==
  {VehicleCommandMsg(VC_REQUEST, VC_EXEC_MANEUVER, r, m, 0) :
      r \in RequestIds, m \in Maneuvers \cup {NullManeuver}}
  \cup {VehicleCommandMsg(VC_REQUEST, c, r, NullManeuver, 0) :
      r \in RequestIds, c \in {VC_STOP_MANEUVER, VC_STOP_CALIBRATION}}
  \cup {VehicleCommandMsg(VC_REQUEST, VC_START_CALIBRATION, r, NullManeuver, ct) :
      r \in RequestIds, ct \in CalibTimes}
  \cup {VehicleCommandMsg(ty, c, 41, m, 0) :
      ty \in {VC_SUCCESS, VC_FAILURE}, c \in Commands,
      m \in {[id |-> DUNE_IMC_LOITER, stamp |-> 1]}}

ControlLoopsMsgs ==
  [kind : {"ControlLoops"}, enable : {"CL_ENABLE", "CL_DISABLE"},
   mask : SUBSET Loops, scope_ref : ScopeRefs]

EntityMonitoringStates ==
  {[kind |-> "EntityMonitoringState", ccount |-> Len(c), ecount |-> Len(e),
    cnames |-> c, enames |-> e, last_error |-> "entity error",
    last_error_time |-> ts] :
      c \in {<<>>, <<"IMU">>}, e \in {<<>>, <<"GPS">>}, ts \in Stamps}

ManeuverControlStates ==
  {[kind |-> "ManeuverControlState", source |-> "local", state |-> "MCS_EXECUTING",
    eta |-> e, info |-> "", stamp |-> ts] : e \in Etas, ts \in Stamps}
  \cup {[kind |-> "ManeuverControlState", source |-> src, state |-> st,
         eta |-> 0, info |-> "info", stamp |-> ts] :
           src \in {"local"}, st \in {"MCS_DONE", "MCS_ERROR"}, ts \in Stamps}
  \cup {[kind |-> "ManeuverControlState", source |-> "remote", state |-> "MCS_ERROR",
         eta |-> 0, info |-> "info", stamp |-> ts] : ts \in Stamps}

PlanControls ==
  [kind : {"PlanControl"}, type : {"PC_REQUEST", "PC_SUCCESS"},
   op : {"PC_START", "PC_STOP"}, flags : {{}, {"FLG_IGNORE_ERRORS"}}]

\* An Abort has no fields; epoch is what Clock::getSinceEpoch() reads when it
\* is consumed.
Aborts == {[kind |-> "Abort", epoch |-> ts] : ts \in Stamps}

\* ------------------------------------------------------------ state machine
\* setInitialState, and the constructor's member initialisers.
InitialVehicleState ==
  [op_mode |-> VS_SERVICE, maneuver_type |-> NoManeuver, maneuver_stime |-> -1,
   maneuver_eta |-> EtaUnknown, error_ents |-> <<>>, error_count |-> 0,
   flags |-> {}, last_error |-> <<>>, last_error_time |-> -1, control_loops |-> {}]

\* The maneuver tasks: each runs the Maneuver base class with the handlers of
\* Maneuver.Loiter.
ManeuverTasks == {"Loiter1", "Loiter2"}

\* The maneuver tasks after construction: no resource initialized, nothing
\* delivered, the mutex free.  m_mcs.state is 0, MCS_EXECUTING, in a new
\* message.
ManeuverInit ==
  /\ is_active = [t \in ManeuverTasks |-> FALSE]
  /\ s_man_lock = "free"
  /\ s_amask = {}
  /\ m_mcs = [t \in ManeuverTasks |-> "MCS_EXECUTING"]
  /\ m_duration = [t \in ManeuverTasks |-> 0]
  /\ m_end_time = [t \in ManeuverTasks |-> 0]
  /\ man_pc = [t \in ManeuverTasks |-> "init"]
  /\ man_msg = [t \in ManeuverTasks |-> "none"]
  /\ man_queue = [t \in ManeuverTasks |-> <<>>]

\* The path controller after onResourceAcquisition and
\* onResourceInitialization: constructed, its parameters updated, deactivated;
\* the bottom tracker constructed and reset.
PathControllerInit ==
  /\ pc_active = FALSE
  /\ pc = [m_error |-> FALSE, m_setup |-> TRUE, m_braking |-> FALSE,
           m_tracking |-> FALSE, m_running_monitors |-> TRUE, m_aloops |-> {},
           m_ts |-> [now |-> 0, end_time |-> 0, nearby |-> FALSE,
                     loitering |-> FALSE, lradius |-> 0, clockwise |-> TRUE,
                     z_control |-> FALSE, end_z |-> 0,
                     track_pos |-> [x |-> 0, y |-> 0], course_error |-> 0,
                     track_length |-> 0, eta |-> 0, end |-> "origin"],
           m_atm |-> [diverging |-> FALSE, time |-> 0, last_err |-> 0,
                      last_course_err |-> 0],
           m_ctm |-> [diverging |-> FALSE, divergence_started |-> 0],
           m_last_pcs_report |-> 0, m_pcs_flags |-> {},
           m_pcs_start |-> "origin", m_pcs_end |-> "origin",
           m_pcs_end_z_units |-> "Z_NONE",
           entity |-> [state |-> "ESTA_BOOT", description |-> "waiting"]]
  /\ btrack = [m_active |-> FALSE, m_mstate |-> "Idle", m_got_data |-> FALSE,
               m_z_ref |-> [value |-> 0, z_units |-> "Z_NONE"],
               m_forced |-> "FC_NONE", m_dspeed |-> 0, m_last_run |-> 0,
               m_valid_alt |-> FALSE]
  /\ pc_loop = <<>>
  /\ brake_op = "none"

\* The supervisor after construction.
SupervisorInit ==
  /\ m_vs = InitialVehicleState
  /\ m_switch_time = -1
  /\ m_in_safe_plan = FALSE
  /\ m_scope_ref = 0
  /\ m_calibration = [duration |-> 0]
  /\ safe_ents \in SafeEntsConfigs
  /\ now = 0

\* "Bottom Track -- Enabled" has its default, false.
Init ==
  /\ ManeuverInit
  /\ PathControllerInit
  /\ ModemTaskInit
  /\ btd_enabled = FALSE
  /\ mission = "reference"
  /\ SupervisorInit

\* The Task after a handler ran.
Commit(t) ==
  /\ m_vs' = t.m_vs
  /\ m_switch_time' = t.m_switch_time
  /\ m_in_safe_plan' = t.m_in_safe_plan
  /\ m_scope_ref' = t.m_scope_ref
  /\ m_calibration' = t.m_calibration

Abort ==
  \E msg \in Aborts :
    /\ Commit(consumeAbort(Cur, msg))
    /\ UNCHANGED <<safe_ents, now, manVars, pathVars, modemVars>>

ControlLoops ==
  \E msg \in ControlLoopsMsgs :
    /\ Commit(consumeControlLoops(Cur, msg))
    /\ UNCHANGED <<safe_ents, now, manVars, pathVars, modemVars>>

EntityMonitoringState ==
  \E msg \in EntityMonitoringStates :
    /\ Commit(consumeEntityMonitoringState(Cur, msg))
    /\ UNCHANGED <<safe_ents, now, manVars, pathVars, modemVars>>

ManeuverControlState ==
  \E msg \in ManeuverControlStates :
    /\ Commit(consumeManeuverControlState(Cur, msg))
    /\ UNCHANGED <<safe_ents, now, manVars, pathVars, modemVars>>

PlanControl ==
  \E msg \in PlanControls :
    /\ Commit(consumePlanControl(Cur, msg))
    /\ UNCHANGED <<safe_ents, now, manVars, pathVars, modemVars>>

VehicleCommand ==
  \E cmd \in VehicleCommands :
    /\ Commit(consumeVehicleCommand(Cur, cmd))
    /\ UNCHANGED <<safe_ents, now, manVars, pathVars, modemVars>>

\* One period of the Periodic task.
Task ==
  /\ Commit(task(Cur))
  /\ UNCHANGED <<safe_ents, now, manVars, pathVars, modemVars>>

\* Time passes.
Tick ==
  /\ now < MaxTime
  /\ now' = now + 1
  /\ UNCHANGED <<m_vs, m_switch_time, m_in_safe_plan, m_scope_ref, m_calibration,
                 safe_ents, manVars, pathVars, modemVars>>

Next ==
  \/ Abort
  \/ ControlLoops
  \/ EntityMonitoringState
  \/ ManeuverControlState
  \/ PlanControl
  \/ VehicleCommand
  \/ Task
  \/ Tick

Spec == Init /\ [][Next]_vars

\* ------------------------------------------------------------------ claims
\* The replies among the messages of a bus.
Replies(b) == SelectSeq(b, LAMBDA m : m.msg = "VehicleCommand")

\* The types of the messages of a bus, in order.
Kinds(b) == [i \in 1..Len(b) |-> b[i].msg]

\* The Task fields of t, without what it published.
Fields(t) == [t EXCEPT !.bus = <<>>]

\* C1: a consumed VehicleCommand of type REQUEST, in whatever mode and for each
\* of the four commands, is answered by exactly one reply, with the request's
\* request_id and command and of type SUCCESS or FAILURE; a VehicleCommand of
\* another type is not answered.
C1_ExactlyOneReply ==
  \A cmd \in VehicleCommands :
    LET r == Replies(consumeVehicleCommand(Cur, cmd).bus)
    IN IF cmd.type = VC_REQUEST
       THEN /\ Len(r) = 1
            /\ r[1].request_id = cmd.request_id
            /\ r[1].command = cmd.command
            /\ r[1].type \in {VC_SUCCESS, VC_FAILURE}
       ELSE Len(r) = 0

\* C1 happens: in ERROR, a STOP_CALIBRATION request is answered once, with its id.
C1_Witness ==
  /\ errorMode(Cur)
  /\ \E cmd \in VehicleCommands :
       /\ cmd.type = VC_REQUEST
       /\ cmd.command = VC_STOP_CALIBRATION
       /\ cmd.request_id = 42
       /\ LET r == Replies(consumeVehicleCommand(Cur, cmd).bus)
          IN Len(r) = 1 /\ r[1].request_id = 42 /\ r[1].command = VC_STOP_CALIBRATION

\* C2: no step takes the operating mode from MANEUVER to CALIBRATION or from
\* CALIBRATION to MANEUVER.
C2_NoDirectManeuverCalibration ==
  [][/\ ~(m_vs.op_mode = VS_MANEUVER /\ m_vs'.op_mode = VS_CALIBRATION)
     /\ ~(m_vs.op_mode = VS_CALIBRATION /\ m_vs'.op_mode = VS_MANEUVER)]_vars

\* C3: a step leaves ERROR only for SERVICE with error_count = 0, or for EXTERNAL
\* with CL_TELEOPERATION or CL_NO_OVERRIDE among the enabled loops.
C3_LeavesErrorOnlyWhenCleared ==
  [][(m_vs.op_mode = VS_ERROR /\ m_vs'.op_mode # VS_ERROR) =>
       \/ m_vs'.op_mode = VS_SERVICE /\ m_vs'.error_count = 0
       \/ /\ m_vs'.op_mode = VS_EXTERNAL
          /\ (m_vs'.control_loops \cap {CL_TELEOPERATION, CL_NO_OVERRIDE}) # {}]_vars

\* C4: a consumed Abort leaves the mode SERVICE or ERROR, from every mode, and
\* the periods of task() that follow keep a mode that is SERVICE or ERROR.
C4_AbortLeadsToServiceOrError ==
  /\ \A msg \in Aborts :
       consumeAbort(Cur, msg).m_vs.op_mode \in {VS_SERVICE, VS_ERROR}
  /\ m_vs.op_mode \in {VS_SERVICE, VS_ERROR} => task(Cur).m_vs.op_mode = m_vs.op_mode

\* C4 happens: an Abort consumed in EXTERNAL with a non-overridable loop enabled
\* leads to SERVICE.
C4_Witness ==
  /\ externalMode(Cur)
  /\ nonOverridableLoops(Cur)
  /\ \E msg \in Aborts : consumeAbort(Cur, msg).m_vs.op_mode = VS_SERVICE

\* reset() ran in the handler that produced t: only reset() dispatches m_idle.
ResetRan(t) == \E i \in 1..Len(t.bus) : t.bus[i] = m_idle

\* P holds of the Task after every handler other than consume(ControlLoops),
\* on every input.
AllOtherSteps(P(_)) ==
  /\ \A msg \in Aborts : P(consumeAbort(Cur, msg))
  /\ \A msg \in EntityMonitoringStates : P(consumeEntityMonitoringState(Cur, msg))
  /\ \A msg \in ManeuverControlStates : P(consumeManeuverControlState(Cur, msg))
  /\ \A msg \in PlanControls : P(consumePlanControl(Cur, msg))
  /\ \A cmd \in VehicleCommands : P(consumeVehicleCommand(Cur, cmd))
  /\ P(task(Cur))

\* The mask after a ControlLoops message, by the messages alone: enable adds
\* the message's bits, disable removes them.
Granted(g, msg) ==
  IF msg.enable = "CL_ENABLE" THEN g \cup msg.mask ELSE g \ msg.mask

Refused(cmd) ==
  /\ cmd.type = VC_REQUEST
  /\ \/ cmd.command \in {VC_EXEC_MANEUVER, VC_START_CALIBRATION} /\ externalMode(Cur)
     \/ cmd.command = VC_EXEC_MANEUVER /\ cmd.maneuver = NullManeuver

\* C6: a refused command publishes one message, a FAILURE reply to the request,
\* and leaves every field of the Task (op_mode, control_loops, the maneuver
\* fields, the switch timer and the rest) as it was.
C6_RefusedChangesNothing ==
  \A cmd \in VehicleCommands :
    Refused(cmd) =>
      LET t == consumeVehicleCommand(Cur, cmd)
      IN /\ Len(t.bus) = 1
         /\ t.bus[1].msg = "VehicleCommand"
         /\ t.bus[1].type = VC_FAILURE
         /\ t.bus[1].request_id = cmd.request_id
         /\ t.bus[1].command = cmd.command
         /\ Fields(t) = Cur

\* C6 happens: in EXTERNAL with loops enabled, an EXEC_MANEUVER request that
\* carries a maneuver is refused.
C6_Witness ==
  /\ externalMode(Cur)
  /\ m_vs.control_loops # {}
  /\ \E cmd \in VehicleCommands :
       /\ Refused(cmd)
       /\ cmd.command = VC_EXEC_MANEUVER
       /\ cmd.maneuver # NullManeuver
       /\ LET t == consumeVehicleCommand(Cur, cmd)
          IN t.bus = <<ReplyMsg(cmd, VC_FAILURE, t.bus[1].info)>> /\ Fields(t) = Cur

\* An EXEC_MANEUVER request that carries a maneuver.
ExecRequest(cmd) ==
  cmd.type = VC_REQUEST /\ cmd.command = VC_EXEC_MANEUVER /\ cmd.maneuver # NullManeuver

\* What C7 says of the Task t after the request cmd.
StartedManeuver(t, cmd) ==
  /\ Len(t.bus) = 4
  /\ t.bus[1] = m_stop
  /\ t.bus[2] = ManeuverMsg(cmd.maneuver)
  /\ t.bus[3].msg = "VehicleState"
  /\ t.bus[3].vs.op_mode = VS_MANEUVER
  /\ t.bus[3].vs.maneuver_type = cmd.maneuver.id
  /\ VFLG_MANEUVER_DONE \notin t.bus[3].vs.flags
  /\ t.bus[3].vs.last_error = <<>>
  /\ t.bus[4].msg = "VehicleCommand"
  /\ t.bus[4].type = VC_SUCCESS
  /\ t.bus[4].request_id = cmd.request_id
  /\ t.m_vs.op_mode = VS_MANEUVER

\* C7: in SERVICE, an EXEC_MANEUVER request with a maneuver publishes, in this
\* order, StopManeuver, the maneuver, a VehicleState with op_mode MANEUVER, the
\* maneuver's id, MANEUVER_DONE clear and last_error empty, and a SUCCESS reply
\* with the request's id; the mode is then MANEUVER.
C7_ManeuverStartSequence ==
  serviceMode(Cur) =>
    \A cmd \in VehicleCommands :
      ExecRequest(cmd) => StartedManeuver(consumeVehicleCommand(Cur, cmd), cmd)

\* C7 happens: in SERVICE with a last_error recorded, a Loiter is started by
\* request 42.
C7_Witness ==
  /\ serviceMode(Cur)
  /\ m_vs.last_error # <<>>
  /\ \E cmd \in VehicleCommands :
       /\ ExecRequest(cmd)
       /\ cmd.maneuver.id = DUNE_IMC_LOITER
       /\ cmd.request_id = 42
       /\ StartedManeuver(consumeVehicleCommand(Cur, cmd), cmd)

\* The names an EntityMonitoringState reports.
Reported(msg) ==
  {msg.cnames[i] : i \in 1..Len(msg.cnames)} \cup {msg.enames[i] : i \in 1..Len(msg.enames)}

\* An EntityMonitoringState reports an error that counts now: it reports an
\* error, and in a safe plan with a non-empty Safe Entities list one of the
\* reported entities is in the list.
RelevantError(msg) ==
  /\ msg.ccount + msg.ecount # 0
  /\ (m_in_safe_plan /\ Len(safe_ents) # 0) =>
       \E i \in 1..Len(safe_ents) : safe_ents[i] \in Reported(msg)

\* C8: in MANEUVER, the maneuver not being Teleoperation and no
\* CL_TELEOPERATION or CL_NO_OVERRIDE loop enabled, an EntityMonitoringState
\* with a relevant error publishes StopManeuver, IdleManeuver and the
\* VehicleState of ERROR, clears control_loops and ends in ERROR; in ERROR, an
\* EntityMonitoringState with ccount + ecount = 0 ends in SERVICE.
C8_EntityErrorStopsManeuver ==
  /\ (maneuverMode(Cur) /\ ~teleoperationOn(Cur) /\ ~nonOverridableLoops(Cur)) =>
       \A msg \in EntityMonitoringStates :
         RelevantError(msg) =>
           LET t == consumeEntityMonitoringState(Cur, msg)
           IN /\ Kinds(t.bus) = <<"StopManeuver", "IdleManeuver", "VehicleState">>
              /\ t.bus[3].vs.op_mode = VS_ERROR
              /\ t.m_vs.control_loops = {}
              /\ t.m_vs.op_mode = VS_ERROR
  /\ errorMode(Cur) =>
       \A msg \in EntityMonitoringStates :
         msg.ccount + msg.ecount = 0 =>
           consumeEntityMonitoringState(Cur, msg).m_vs.op_mode = VS_SERVICE

\* C8 happens: a Loiter runs with CL_PATH enabled and an error of GPS is
\* reported.
C8_Witness ==
  /\ maneuverMode(Cur)
  /\ maneuverIs(Cur, DUNE_IMC_LOITER)
  /\ m_vs.control_loops = {CL_PATH}
  /\ \E msg \in EntityMonitoringStates :
       /\ RelevantError(msg)
       /\ msg.enames = <<"GPS">>
       /\ LET t == consumeEntityMonitoringState(Cur, msg)
          IN t.m_vs.op_mode = VS_ERROR /\ t.m_vs.control_loops = {} /\ ResetRan(t)

\* C9, for the ControlLoops messages the handler does not drop as obsolete: in
\* ERROR, an enabling mask with CL_TELEOPERATION or CL_NO_OVERRIDE ends in
\* EXTERNAL; a non-empty enabling mask of overridable loops only ends in ERROR
\* with control_loops empty and IdleManeuver published.
C9_ErrorToExternalOnNonOverridable ==
  errorMode(Cur) =>
    \A msg \in ControlLoopsMsgs :
      (msg.enable = "CL_ENABLE" /\ msg.mask # {} /\ msg.scope_ref >= m_scope_ref) =>
        LET t == consumeControlLoops(Cur, msg)
        IN IF (msg.mask \cap {CL_TELEOPERATION, CL_NO_OVERRIDE}) # {}
           THEN t.m_vs.op_mode = VS_EXTERNAL
           ELSE /\ t.m_vs.op_mode = VS_ERROR
                /\ t.m_vs.control_loops = {}
                /\ ResetRan(t)

\* Only VehicleState messages are on the bus b.
OnlyVehicleState(b) == \A i \in 1..Len(b) : b[i].msg = "VehicleState"

\* C10 as stated: in SERVICE every ControlLoops{enable=1} with a non-empty
\* mask ends in EXTERNAL; in EXTERNAL every ControlLoops{enable=0} that leaves
\* no loop enabled ends in SERVICE; both publish VehicleState only.
C10_LoopsSwitchServiceExternal ==
  /\ serviceMode(Cur) =>
       \A msg \in ControlLoopsMsgs :
         (msg.enable = "CL_ENABLE" /\ msg.mask # {}) =>
           LET t == consumeControlLoops(Cur, msg)
           IN t.m_vs.op_mode = VS_EXTERNAL /\ OnlyVehicleState(t.bus)
  /\ externalMode(Cur) =>
       \A msg \in ControlLoopsMsgs :
         LET t == consumeControlLoops(Cur, msg)
         IN (msg.enable = "CL_DISABLE" /\ t.m_vs.control_loops = {}) =>
              t.m_vs.op_mode = VS_SERVICE /\ OnlyVehicleState(t.bus)

\* An entity error that counts is recorded in m_vs: error_count is not 0, and
\* in a safe plan with a non-empty Safe Entities list one of the entities of
\* error_ents is in the list.
RelevantErrorRecorded ==
  /\ m_vs.error_count # 0
  /\ (m_in_safe_plan /\ Len(safe_ents) # 0) =>
       \E i \in 1..Len(safe_ents) : \E j \in 1..Len(m_vs.error_ents) :
         safe_ents[i] = m_vs.error_ents[j]

\* C10 amended, for the ControlLoops messages the handler does not drop as
\* obsolete: in SERVICE, an enabling non-empty mask ends in EXTERNAL when no
\* loop was enabled before, and otherwise leaves the mode SERVICE and publishes
\* nothing; in EXTERNAL, a disabling mask that removes the last enabled loops
\* ends in SERVICE, or in ERROR when a relevant entity error is recorded; each
\* of the two transitions publishes exactly one VehicleState and nothing else.
C10_FirstLoopsSwitchServiceExternal ==
  /\ serviceMode(Cur) =>
       \A msg \in ControlLoopsMsgs :
         (msg.enable = "CL_ENABLE" /\ msg.mask # {} /\ msg.scope_ref >= m_scope_ref) =>
           LET t == consumeControlLoops(Cur, msg)
           IN IF m_vs.control_loops = {}
              THEN t.m_vs.op_mode = VS_EXTERNAL /\ Kinds(t.bus) = <<"VehicleState">>
              ELSE t.m_vs.op_mode = VS_SERVICE /\ t.bus = <<>>
  /\ externalMode(Cur) =>
       \A msg \in ControlLoopsMsgs :
         (/\ msg.enable = "CL_DISABLE"
          /\ m_vs.control_loops \ msg.mask = {}
          /\ msg.scope_ref >= m_scope_ref) =>
           LET t == consumeControlLoops(Cur, msg)
           IN /\ t.m_vs.op_mode = IF RelevantErrorRecorded THEN VS_ERROR ELSE VS_SERVICE
              /\ Kinds(t.bus) = <<"VehicleState">>

\* C10 amended happens: EXTERNAL with a non-overridable loop enabled and a
\* relevant entity error recorded; disabling the loops ends in ERROR.
C10_Witness ==
  /\ externalMode(Cur)
  /\ m_vs.control_loops = {CL_TELEOPERATION}
  /\ RelevantErrorRecorded
  /\ \E msg \in ControlLoopsMsgs :
       /\ msg.enable = "CL_DISABLE" /\ msg.mask = {CL_TELEOPERATION}
       /\ msg.scope_ref >= m_scope_ref
       /\ LET t == consumeControlLoops(Cur, msg)
          IN t.m_vs.op_mode = VS_ERROR /\ Kinds(t.bus) = <<"VehicleState">>

\* The names of msg that consume(EntityMonitoringState) copies to error_ents.
SafeReported(msg) == \E i \in 1..Len(safe_ents) : safe_ents[i] \in Reported(msg)

\* C11: with the safe-plan latch set and a non-empty Safe Entities list, an
\* EntityMonitoringState that reports errors takes the supervisor into ERROR
\* only when one of the reported names is in Safe Entities, and leaves the
\* operating mode unchanged when none is; with the latch clear or the list
\* empty, entityError() is true exactly when the recorded error count is not 0,
\* and in SERVICE every report with a non-zero count ends in ERROR.
C11_SafePlanFilter ==
  \A msg \in EntityMonitoringStates :
    LET t == consumeEntityMonitoringState(Cur, msg)
    IN IF m_in_safe_plan /\ Len(safe_ents) # 0
       THEN (msg.ccount + msg.ecount # 0) =>
              /\ (~errorMode(Cur) /\ errorMode(t)) => SafeReported(msg)
              /\ ~SafeReported(msg) => t.m_vs.op_mode = m_vs.op_mode
       ELSE /\ entityError(t) <=> (t.m_vs.error_count # 0)
            /\ (serviceMode(Cur) /\ msg.ccount + msg.ecount # 0) => errorMode(t)

\* C11 happens: in MANEUVER under a plan started with IGNORE_ERRORS, with IMU
\* in Safe Entities, an error of GPS alone leaves the mode MANEUVER and an
\* error of IMU ends in ERROR.
C11_Witness ==
  /\ m_in_safe_plan /\ safe_ents = <<"IMU">>
  /\ maneuverMode(Cur) /\ ~teleoperationOn(Cur) /\ ~nonOverridableLoops(Cur)
  /\ \E msg \in EntityMonitoringStates :
       /\ Reported(msg) = {"GPS"} /\ msg.ecount = 1
       /\ consumeEntityMonitoringState(Cur, msg).m_vs.op_mode = VS_MANEUVER
  /\ \E msg \in EntityMonitoringStates :
       /\ Reported(msg) = {"IMU", "GPS"}
       /\ errorMode(consumeEntityMonitoringState(Cur, msg))

\* =========================================================================
\* Maneuver framework: DUNE::Maneuvers::Maneuver and Maneuver.Loiter.
\* Every maneuver task is a thread; a step of a thread is one action.  The
\* shared state is the maneuver mutex s_man_lock.  What a maneuver task
\* publishes (ManeuverControlState, ControlLoops, DesiredPath) is read by other
\* tasks only and is left out, with setControl().
\* =========================================================================

\* Most messages of the supervisor a maneuver task's queue holds.
MaxQueue == 2

\* The Loiter maneuvers a supervisor dispatches: radius, duration.  The
\* handler does not read the duration of a maneuver with a negative radius.
LoiterMsgs ==
  {[kind |-> "Loiter", radius |-> -1, duration |-> 0]}
  \cup [kind : {"Loiter"}, radius : {50}, duration : {0, 1}]

\* PathControlState as the path controller publishes it: FL_LOITERING or not.
PathControlStateMsgs == [kind : {"PathControlState"}, loitering : BOOLEAN]

StopManeuverMsg == [kind |-> "StopManeuver"]

\* The fields the handlers of the maneuver tasks read and write.  events
\* collects what the handler in progress publishes and the mutexes it takes
\* inside a call, each with the mutexes its thread holds at that moment.
ManCur ==
  [is_active |-> is_active, s_man_lock |-> s_man_lock, s_amask |-> s_amask,
   m_mcs |-> m_mcs, m_duration |-> m_duration, m_end_time |-> m_end_time,
   now |-> now, events |-> <<>>]

\* The mutexes thread t holds.
LocksHeld(m, t) == IF m.s_man_lock = t THEN {"s_man_lock"} ELSE {}

\* Task::dispatch by the maneuver task t.
Maneuver_dispatch(m, t, kind) ==
  [m EXCEPT !.events = Append(@, [ev |-> "dispatch", what |-> kind,
                                  held |-> LocksHeld(m, t)])]

\* Maneuver::updateLoops: the mask changes under a ScopedMutex of
\* s_amask_lock, which the call waits for and releases.
Maneuver_updateLoops(m, t, cl) ==
  [m EXCEPT !.s_amask = IF cl.enable THEN @ \cup cl.mask ELSE @ \ cl.mask,
            !.events = Append(@, [ev |-> "lock", what |-> "s_amask_lock",
                                  held |-> LocksHeld(m, t)])]

\* Maneuver::setControl; CL_ALL covers every loop of the mask.
Maneuver_setControl(m, t, mask) ==
  IF mask = m.s_amask THEN m
  ELSE LET stop == [enable |-> FALSE, mask |-> m.s_amask \cup mask]
           m1 == Maneuver_updateLoops(Maneuver_dispatch(m, t, "ControlLoops"), t, stop)
           start == [enable |-> TRUE, mask |-> mask]
       IN IF mask # {}
          THEN Maneuver_updateLoops(Maneuver_dispatch(m1, t, "ControlLoops"), t, start)
          ELSE m1

\* Concurrency::Mutex::tryLock by thread t: granted when no thread owns the
\* mutex, an exception otherwise.
Mutex_tryLock(lock, t) ==
  IF lock = "free" THEN [lock |-> t, threw |-> FALSE]
  ELSE [lock |-> lock, threw |-> TRUE]

\* Concurrency::Mutex::unlock by thread t: releases the mutex t owns.
Mutex_unlock(lock, t) == IF lock = t THEN "free" ELSE lock

Maneuver_tryLockAlways(m, t) ==
  [m |-> [m EXCEPT !.s_man_lock = Mutex_tryLock(m.s_man_lock, t).lock],
   ret |-> TRUE]

\* Maneuver::tryLock: true unless s_man_lock.tryLock() throws.
Maneuver_tryLock(m, t) ==
  LET r == Mutex_tryLock(m.s_man_lock, t)
  IN [m |-> [m EXCEPT !.s_man_lock = r.lock], ret |-> ~r.threw]

\* Maneuver::unlock.
Maneuver_unlock(m, t) ==
  [m EXCEPT !.s_man_lock = Mutex_unlock(m.s_man_lock, t)]

Maneuver_onDeactivationKeepsLock(m, t) == m

\* Maneuver::onDeactivation: onManeuverDeactivation() is empty in Loiter.
Maneuver_onDeactivation(m, t) == Maneuver_unlock(m, t)

\* Maneuver::onActivation: the entity state only.
Maneuver_onActivation(m, t) == m

\* Tasks::Task::deactivate and activate: the flag, then the hook.
Task_deactivate(m, t) ==
  Maneuver_onDeactivation([m EXCEPT !.is_active[t] = FALSE], t)

Task_activate(m, t) ==
  Maneuver_onActivation([m EXCEPT !.is_active[t] = TRUE], t)

\* Maneuver::signalError, signalCompletion, signalProgress.
Maneuver_signalError(m, t) ==
  Maneuver_dispatch([Task_deactivate(m, t) EXCEPT !.m_mcs[t] = "MCS_ERROR"],
                    t, "ManeuverControlState")

Maneuver_signalCompletion(m, t) ==
  Maneuver_dispatch([Task_deactivate(m, t) EXCEPT !.m_mcs[t] = "MCS_DONE"],
                    t, "ManeuverControlState")

Maneuver_signalProgress(m, t) ==
  Maneuver_dispatch([m EXCEPT !.m_mcs[t] = "MCS_EXECUTING"],
                    t, "ManeuverControlState")

\* Maneuver::consume(const IMC::StopManeuver*).
Maneuver_consumeStopManeuver(m, t) ==
  IF m.is_active[t] THEN Task_deactivate(m, t) ELSE m

\* Loiter Task::consume(const IMC::Loiter*).
Loiter_consumeLoiter(m, t, maneuver) ==
  LET m1 == Maneuver_setControl(m, t, {CL_PATH})
  IN IF maneuver.radius < 0
     THEN Maneuver_signalError(m1, t)
     ELSE [Maneuver_dispatch(m1, t, "DesiredPath")
             EXCEPT !.m_duration[t] = maneuver.duration, !.m_end_time[t] = -1]

\* Loiter Task::consume(const IMC::PathControlState*).
Loiter_consumePathControlState(m, t, pcs) ==
  IF pcs.loitering
  THEN IF m.m_duration[t] # 0
       THEN IF m.m_end_time[t] < 0
            THEN [m EXCEPT !.m_end_time[t] = m.now + m.m_duration[t]]
            ELSE IF m.now >= m.m_end_time[t]
                 THEN Maneuver_signalCompletion(m, t)
                 ELSE Maneuver_signalProgress(m, t)
       ELSE m
  ELSE Maneuver_signalProgress(m, t)

\* Maneuver::consumeIfActive<PathControlState, Loiter::Task>.
Maneuver_consumeIfActive(m, t, pcs) ==
  IF m.is_active[t] THEN Loiter_consumePathControlState(m, t, pcs) ELSE m

ManCommit(m) ==
  /\ is_active' = m.is_active
  /\ s_man_lock' = m.s_man_lock
  /\ s_amask' = m.s_amask
  /\ m_mcs' = m.m_mcs
  /\ m_duration' = m.m_duration
  /\ m_end_time' = m.m_end_time

supVars == <<m_vs, m_switch_time, m_in_safe_plan, m_scope_ref, m_calibration,
             safe_ents>>

\* Every maneuver task's queue has room for n more messages.
Room(n) == \A t \in ManeuverTasks : Len(man_queue[t]) + n <= MaxQueue

\* The bus delivers msg to every maneuver task.
Broadcast(q, msg) == [t \in ManeuverTasks |-> Append(q[t], msg)]

\* The supervisor starts a maneuver: startManeuver() dispatches StopManeuver,
\* which every maneuver task consumes, then changeMode() dispatches the
\* maneuver, which the task bound to it consumes.
SupervisorStartsManeuver ==
  \E t \in ManeuverTasks, maneuver \in LoiterMsgs :
    /\ Room(2)
    /\ man_queue' = [Broadcast(man_queue, StopManeuverMsg)
                       EXCEPT ![t] = Append(@, maneuver)]
    /\ UNCHANGED <<pathVars, modemVars, supVars, now, is_active, s_man_lock, s_amask, m_mcs,
                   m_duration,
                   m_end_time, man_pc, man_msg>>

\* The supervisor's reset() dispatches StopManeuver.
SupervisorStopsManeuver ==
  /\ Room(1)
  /\ man_queue' = Broadcast(man_queue, StopManeuverMsg)
  /\ UNCHANGED <<pathVars, modemVars, supVars, now, is_active, s_man_lock, s_amask, m_mcs,
                   m_duration,
                 m_end_time, man_pc, man_msg>>

\* Maneuver::onResourceInitialization, then the task enters onMain.
ManeuverInitializes(t) ==
  /\ man_pc[t] = "init"
  /\ ManCommit(Task_deactivate(ManCur, t))
  /\ man_pc' = [man_pc EXCEPT ![t] = "main"]
  /\ UNCHANGED <<pathVars, modemVars, supVars, now, man_msg, man_queue>>

\* onMain: waitForMessages() hands the next message to its handler.  A
\* maneuver enters startManeuver, whose first statement reads isActive().
ManeuverConsumes(t) ==
  /\ man_pc[t] = "main"
  /\ man_queue[t] # <<>>
  /\ LET msg == Head(man_queue[t])
     IN /\ man_queue' = [man_queue EXCEPT ![t] = Tail(@)]
        /\ CASE msg.kind = "StopManeuver" ->
                  /\ ManCommit(Maneuver_consumeStopManeuver(ManCur, t))
                  /\ UNCHANGED <<man_pc, man_msg>>
             [] msg.kind = "Loiter" ->
                  /\ man_msg' = [man_msg EXCEPT ![t] = msg]
                  /\ man_pc' = [man_pc EXCEPT ![t] =
                                  IF is_active[t] THEN "handle" ELSE "lock"]
                  /\ UNCHANGED <<is_active, s_man_lock, s_amask, m_mcs, m_duration,
                                 m_end_time>>
  /\ UNCHANGED <<pathVars, modemVars, supVars, now>>

\* onMain: waitForMessages() hands the task a PathControlState of the path
\* controller.  The bus orders the messages of one publisher only, so it
\* arrives at any point between the supervisor's messages.
ManeuverConsumesPathControlState(t) ==
  \E pcs \in PathControlStateMsgs :
    /\ man_pc[t] = "main"
    /\ ManCommit(Maneuver_consumeIfActive(ManCur, t, pcs))
    /\ UNCHANGED <<pathVars, modemVars, supVars, now, man_pc, man_msg, man_queue>>

\* startManeuver: one round of while (!tryLock()) Delay::wait(0.5).
ManeuverPolls(t) ==
  /\ man_pc[t] = "lock"
  /\ LET r == Maneuver_tryLock(ManCur, t)
     IN /\ ManCommit(r.m)
        /\ man_pc' = [man_pc EXCEPT ![t] = IF r.ret THEN "handle" ELSE "lock"]
  /\ UNCHANGED <<pathVars, modemVars, supVars, now, man_msg, man_queue>>

\* startManeuver: signalProgress(65535, "in progress") and the maneuver's own
\* consume().
ManeuverHandles(t) ==
  /\ man_pc[t] = "handle"
  /\ ManCommit(Loiter_consumeLoiter(Maneuver_signalProgress(ManCur, t), t,
                                    man_msg[t]))
  /\ man_pc' = [man_pc EXCEPT ![t] = "activate"]
  /\ UNCHANGED <<pathVars, modemVars, supVars, now, man_msg, man_queue>>

\* startManeuver: if (m_mcs.state == MCS_EXECUTING) activate(); and return.
ManeuverActivates(t) ==
  /\ man_pc[t] = "activate"
  /\ ManCommit(IF m_mcs[t] = "MCS_EXECUTING" THEN Task_activate(ManCur, t)
               ELSE ManCur)
  /\ man_pc' = [man_pc EXCEPT ![t] = "main"]
  /\ man_msg' = [man_msg EXCEPT ![t] = "none"]
  /\ UNCHANGED <<pathVars, modemVars, supVars, now, man_queue>>

\* Time passes for the maneuver tasks.
ManTick ==
  /\ now < MaxTime
  /\ now' = now + 1
  /\ UNCHANGED <<pathVars, modemVars, supVars, manVars>>

ManNext ==
  \/ SupervisorStartsManeuver
  \/ SupervisorStopsManeuver
  \/ \E t \in ManeuverTasks : ManeuverInitializes(t)
  \/ \E t \in ManeuverTasks : ManeuverConsumes(t)
  \/ \E t \in ManeuverTasks : ManeuverConsumesPathControlState(t)
  \/ \E t \in ManeuverTasks : ManeuverPolls(t)
  \/ \E t \in ManeuverTasks : ManeuverHandles(t)
  \/ \E t \in ManeuverTasks : ManeuverActivates(t)
  \/ ManTick

ManInit == Init /\ safe_ents = <<>>

ManSpec == ManInit /\ [][ManNext]_vars

\* The maneuver task t is active, is about to run its maneuver handler in
\* startManeuver, or has run it and is about to activate.
ManeuverRuns(t) ==
  \/ is_active[t]
  \/ man_pc[t] = "handle"
  \/ man_pc[t] = "activate" /\ m_mcs[t] = "MCS_EXECUTING"

\* C12: at most one maneuver task is active, and a maneuver task that is
\* active, runs its maneuver handler or is about to activate owns the maneuver
\* mutex; so, under every interleaving, a maneuver started while another task
\* is active does neither before that task has deactivated and unlocked.
C12_OneActiveManeuver ==
  /\ Cardinality({t \in ManeuverTasks : is_active[t]}) <= 1
  /\ \A t \in ManeuverTasks : ManeuverRuns(t) => s_man_lock = t

\* C12 happens: one task is active while the other, started, polls the mutex.
C12_Witness ==
  \E t, u \in ManeuverTasks :
    /\ t # u
    /\ is_active[t] /\ s_man_lock = t
    /\ man_pc[u] = "lock" /\ man_msg[u].radius = 50

MaxPathTime == 5
\* Most loop-back messages waiting in the path controller's queue.
MaxLoopBack == 1

\* c_time_factor, c_new_ref_timeout.
c_time_factor == 5
c_new_ref_timeout == 5
\* c_depth_hyst, 0.5 m.
c_depth_hyst == 5
\* Math::c_half_pi.
c_half_pi == 90

\* The parameters, as onUpdateParameters() leaves them.  Control Frequency,
\* State Report Frequency and Execution Frequency of 1 Hz; along-track check
\* period 2 s, minimum speed 1 m/s, minimum yaw 45 degree/s; cross-track
\* distance limit 15 m, time limit 2 s, no navigation uncertainty; the
\* defaults of the bottom tracker.
m_cperiod == 1
m_speriod == 1
m_atm_period == 2
m_atm_min_speed == 1
m_atm_min_yaw == 45
m_ctm_distance_limit == 15
m_ctm_time_limit == 2
m_ctm_nav_uncertainty == 0
btd_control_period == 1
btd_min_alt == 10
btd_depth_tol == 10
btd_depth_limit == 480
btd_alt_tol == 20

\* IMC::CL_* bits the path controller configures, Z units, tracker states.
CL_SPEED == "CL_SPEED"
CL_DEPTH == "CL_DEPTH"
CL_ALTITUDE == "CL_ALTITUDE"
PathLoops == {CL_PATH, CL_SPEED, CL_DEPTH, CL_ALTITUDE}
Z_NONE == "Z_NONE"
Z_DEPTH == "Z_DEPTH"
Z_ALTITUDE == "Z_ALTITUDE"
SM_IDLE == "Idle"
SM_TRACKING == "Tracking"
SM_DEPTH == "Depth"
SM_UNSAFE == "Unsafe"
SM_AVOIDING == "Avoiding"
FC_NONE == "FC_NONE"
FC_DEPTH == "FC_DEPTH"

Abs(n) == IF n < 0 THEN -n ELSE n
Max(a, b) == IF a >= b THEN a ELSE b
Min(a, b) == IF a <= b THEN a ELSE b

\* The largest integer whose square is at most n: std::sqrt on the squares
\* the inputs produce.
ISqrt(n) == CHOOSE r \in 0..n : r * r <= n /\ (r + 1) * (r + 1) > n

\* Math::norm.
Norm(a, b) == ISqrt(a * a + b * b)

\* The fields of the PathController and of its BottomTracker that the handlers
\* read and write.  bus collects what the handler in progress publishes, loop
\* the messages dispatched with DF_LOOP_BACK, which the task consumes later.
PathCur ==
  [now |-> now, btd_enabled |-> btd_enabled, active |-> pc_active,
   p |-> pc, bt |-> btrack, loop |-> pc_loop, brake |-> brake_op, bus |-> <<>>]

\* Task::dispatch, and with DF_LOOP_BACK.  A Brake is also remembered as the
\* last Brake dispatched.
Path_dispatch(t, msg) ==
  [t EXCEPT !.bus = Append(@, msg),
            !.brake = IF msg.kind = "Brake" THEN msg.op ELSE @]

Path_dispatchLoop(t, msg) ==
  [Path_dispatch(t, msg) EXCEPT !.loop = Append(@, msg)]

\* PathController::updateEntityState.
Path_updateEntityState(t, msg) ==
  [t EXCEPT !.p.entity =
     IF t.p.m_setup THEN [state |-> "ESTA_BOOT", description |-> "waiting"]
     ELSE IF t.p.m_error THEN [state |-> "ESTA_ERROR", description |-> msg]
     ELSE [state |-> "ESTA_NORMAL", description |-> "active"]]

Path_signalErrorNoEntity(t, msg) == [t EXCEPT !.p.m_error = TRUE]

\* PathController::signalError.
Path_signalError(t, msg) ==
  Path_updateEntityState([t EXCEPT !.p.m_error = TRUE], msg)

Path_configureControlLoopsEnableOnly(t, enable, mask) ==
  IF ~enable \/ mask \subseteq t.p.m_aloops THEN t
  ELSE Path_dispatch([t EXCEPT !.p.m_aloops = @ \cup mask],
                     [kind |-> "ControlLoops", enable |-> enable, mask |-> mask])

\* PathController::configureControlLoops.
Path_configureControlLoops(t, enable, mask) ==
  IF enable /\ mask \subseteq t.p.m_aloops THEN t
  ELSE IF ~enable /\ (mask \cap t.p.m_aloops) = {} THEN t
  ELSE Path_dispatch(
         [t EXCEPT !.p.m_aloops = IF enable THEN @ \cup mask ELSE @ \ mask],
         [kind |-> "ControlLoops", enable |-> enable, mask |-> mask])

Path_enableControlLoops(t, mask) == Path_configureControlLoops(t, TRUE, mask)
Path_disableControlLoops(t, mask) == Path_configureControlLoops(t, FALSE, mask)

\* (uint16_t) Math::round(v): the values the conversion can produce.  Out of
\* the range of uint16_t the conversion is undefined; builds either wrap the
\* integer or saturate it at zero.
ToUint16(v) == IF v \in 0..65535 THEN {v} ELSE {v % 65536, 0}

\* PathController::reportPathControlState.
Path_reportPathControlStateUnforced(t, force) ==
  IF t.p.m_ts.now - t.p.m_last_pcs_report < m_speriod THEN t
  ELSE Path_dispatch([t EXCEPT !.p.m_last_pcs_report = t.p.m_ts.now],
         [kind |-> "PathControlState", flags |-> t.p.m_pcs_flags,
          start |-> t.p.m_pcs_start, end |-> t.p.m_pcs_end,
          x |-> t.p.m_ts.track_length - t.p.m_ts.track_pos.x,
          y |-> t.p.m_ts.track_pos.y, lradius |-> 0, eta |-> ToUint16(t.p.m_ts.eta)])

Path_reportPathControlState(t, force) ==
  IF ~force /\ t.p.m_ts.now - t.p.m_last_pcs_report < m_speriod THEN t
  ELSE LET flags == (t.p.m_pcs_flags \ {"FL_NEAR", "FL_LOITERING"})
                    \cup (IF t.p.m_ts.nearby THEN {"FL_NEAR"} ELSE {})
                    \cup (IF t.p.m_ts.loitering THEN {"FL_LOITERING"} ELSE {})
           t1 == [t EXCEPT !.p.m_last_pcs_report = t.p.m_ts.now,
                           !.p.m_pcs_flags = flags]
       IN Path_dispatch(t1,
            [kind |-> "PathControlState", flags |-> flags,
             start |-> t.p.m_pcs_start, end |-> t.p.m_pcs_end,
             x |-> IF t.p.m_ts.loitering THEN 0
                   ELSE t.p.m_ts.track_length - t.p.m_ts.track_pos.x,
             y |-> t.p.m_ts.track_pos.y,
             lradius |-> IF t.p.m_ts.loitering THEN t.p.m_ts.lradius ELSE 0,
             eta |-> ToUint16(t.p.m_ts.eta)])

\* PathController::updateTrackingState, pos being the vehicle's position in
\* the coordinates of the track: x along, y across, ce the course error,
\* speed, and for a loiter the range to its centre.
Path_updateTrackingState(t, pos) ==
  IF ~t.p.m_ts.loitering
  THEN LET errx == Abs(t.p.m_ts.track_length - pos.x)
           erry == Abs(pos.y)
           s == Max(1, pos.speed)
           eta0 == IF errx <= erry /\ erry < 2 * c_time_factor * s
                   THEN errx \div s
                   ELSE Norm(errx, erry) \div s
           eta1 == Min(65535, eta0 - c_time_factor)
           near == ~t.p.m_ts.nearby /\ eta1 <= 0
       IN [t EXCEPT !.p.m_ts.track_pos = [x |-> pos.x, y |-> pos.y],
                    !.p.m_ts.course_error = pos.ce,
                    !.p.m_ts.eta = IF near THEN 0 ELSE eta1,
                    !.p.m_ts.nearby = IF near THEN TRUE ELSE @,
                    !.p.m_ts.end_time = IF near THEN t.p.m_ts.now ELSE @]
  ELSE [t EXCEPT !.p.m_ts.track_pos =
                    [x |-> 0,
                     y |-> IF t.p.m_ts.clockwise
                           THEN -(pos.range - t.p.m_ts.lradius)
                           ELSE pos.range - t.p.m_ts.lradius],
                 !.p.m_ts.course_error = pos.ce,
                 !.p.m_ts.eta = 0,
                 !.p.m_ts.nearby = FALSE]

\* ------------------------------------------------------------ BottomTracker
\* BottomTracker::reset.
BT_reset(t) ==
  [t EXCEPT !.bt.m_mstate = SM_IDLE,
            !.bt.m_got_data = FALSE,
            !.bt.m_z_ref = [value |-> 0, z_units |-> Z_NONE],
            !.bt.m_forced = FC_NONE,
            !.bt.m_dspeed = 0,
            !.bt.m_last_run = t.now]

\* BottomTracker::activate, deactivate.
BT_activate(t) == BT_reset([t EXCEPT !.bt.m_active = TRUE])

BT_deactivate(t) == [t EXCEPT !.bt.m_active = FALSE]

DesiredZMsg(value, units) == [kind |-> "DesiredZ", value |-> value, z_units |-> units]

BrakeMsg(op) == [kind |-> "Brake", op |-> op]

\* onDesiredZ sending every outgoing reference to the bus.
BT_onDesiredZAlwaysToBus(t, msg, outgoing) ==
  LET t1 == IF t.bt.m_active THEN [t EXCEPT !.bt.m_z_ref = [value |-> msg.value,
                                                            z_units |-> msg.z_units]]
            ELSE t
  IN IF outgoing THEN Path_dispatch(t1, DesiredZMsg(msg.value, msg.z_units)) ELSE t1

\* BottomTracker::onDesiredZ.
BT_onDesiredZ(t, msg, outgoing) ==
  LET t1 == IF t.bt.m_active THEN [t EXCEPT !.bt.m_z_ref = [value |-> msg.value,
                                                            z_units |-> msg.z_units]]
            ELSE t
      tobus == IF t.bt.m_active
               THEN /\ outgoing
                    /\ t.bt.m_mstate \notin {SM_UNSAFE, SM_AVOIDING}
                    /\ t.bt.m_forced = FC_NONE
               ELSE outgoing
  IN IF tobus THEN Path_dispatch(t1, DesiredZMsg(msg.value, msg.z_units)) ELSE t1

\* BottomTracker::onDesiredSpeed.
BT_onDesiredSpeed(t, msg) ==
  IF ~t.bt.m_active THEN t ELSE [t EXCEPT !.bt.m_dspeed = msg.value]

\* BottomTracker::brake.
BT_brake(t, start) ==
  Path_dispatchLoop(t, BrakeMsg(IF start THEN "OP_START" ELSE "OP_STOP"))

\* BottomTracker::dispatchSafeDepth, dispatchLimitDepth, dispatchSameZ.
BT_dispatchSafeDepth(t, es) ==
  Path_dispatch(t, DesiredZMsg(
    IF t.bt.m_z_ref.z_units = Z_ALTITUDE
    THEN Max(0, es.depth_at_slope - t.bt.m_z_ref.value)
    ELSE Max(0, es.depth_at_slope - btd_alt_tol), Z_DEPTH))

BT_dispatchLimitDepth(t) == Path_dispatch(t, DesiredZMsg(btd_depth_limit, Z_DEPTH))

BT_dispatchSameZ(t) ==
  Path_dispatch(t, DesiredZMsg(t.bt.m_z_ref.value, t.bt.m_z_ref.z_units))

\* BottomTracker::isAltitudeValid: the tracker after the call; m_valid_alt is
\* what it returns.
BT_isAltitudeValid(t, es) ==
  LET v1 == IF es.alt < 0 THEN FALSE ELSE t.bt.m_valid_alt
      v2 == IF es.depth > btd_depth_tol THEN TRUE
            ELSE IF es.depth < btd_depth_tol - c_depth_hyst THEN FALSE
            ELSE v1
  IN [t EXCEPT !.bt.m_valid_alt = v2]

\* BottomTracker::onIdle.
BT_onIdle(t, es) ==
  IF t.bt.m_z_ref.z_units = Z_ALTITUDE
  THEN [t EXCEPT !.bt.m_mstate = SM_TRACKING,
                 !.bt.m_valid_alt = (es.depth > btd_depth_tol)]
  ELSE t

\* onTracking moving to DEPTH without recording that depth control is forced.
BT_onTrackingUnforced(t, es) ==
  IF t.bt.m_z_ref.z_units = Z_DEPTH
  THEN [t EXCEPT !.bt.m_mstate = SM_IDLE]
  ELSE LET t1 == BT_isAltitudeValid(t, es)
       IN IF ~t1.bt.m_valid_alt THEN t1
          ELSE IF es.alt < btd_min_alt
          THEN [BT_brake(t1, TRUE) EXCEPT !.bt.m_mstate = SM_AVOIDING]
          ELSE IF es.surface THEN t1
          ELSE IF es.range_low
          THEN [BT_brake(t1, TRUE) EXCEPT !.bt.m_mstate = SM_AVOIDING]
          ELSE IF es.too_steep
          THEN [BT_dispatchSafeDepth(t1, es) EXCEPT !.bt.m_mstate = SM_UNSAFE]
          ELSE IF es.depth + es.alt - t1.bt.m_z_ref.value
                    > btd_depth_limit + c_depth_hyst
          THEN [BT_dispatchLimitDepth(t1) EXCEPT !.bt.m_mstate = SM_DEPTH]
          ELSE t1

\* BottomTracker::onTracking.
BT_onTracking(t, es) ==
  IF t.bt.m_z_ref.z_units = Z_DEPTH
  THEN [t EXCEPT !.bt.m_mstate = SM_IDLE]
  ELSE LET t1 == BT_isAltitudeValid(t, es)
       IN IF ~t1.bt.m_valid_alt THEN t1
          ELSE IF es.alt < btd_min_alt
          THEN [BT_brake(t1, TRUE) EXCEPT !.bt.m_mstate = SM_AVOIDING]
          ELSE IF es.surface THEN t1
          ELSE IF es.range_low
          THEN [BT_brake(t1, TRUE) EXCEPT !.bt.m_mstate = SM_AVOIDING]
          ELSE IF es.too_steep
          THEN [BT_dispatchSafeDepth(t1, es) EXCEPT !.bt.m_mstate = SM_UNSAFE]
          ELSE IF es.depth + es.alt - t1.bt.m_z_ref.value
                    > btd_depth_limit + c_depth_hyst
          THEN [BT_dispatchLimitDepth([t1 EXCEPT !.bt.m_forced = FC_DEPTH])
                  EXCEPT !.bt.m_mstate = SM_DEPTH]
          ELSE t1

\* BottomTracker::onDepth.
BT_onDepth(t, es) ==
  IF t.bt.m_z_ref.z_units = Z_ALTITUDE /\ t.bt.m_forced # FC_DEPTH
  THEN [BT_dispatchSameZ([t EXCEPT !.bt.m_forced = FC_NONE])
          EXCEPT !.bt.m_mstate = SM_TRACKING]
  ELSE IF t.bt.m_z_ref.z_units = Z_DEPTH /\ t.bt.m_z_ref.value < btd_depth_limit
  THEN BT_dispatchSameZ([t EXCEPT !.bt.m_forced = FC_NONE,
                                  !.bt.m_mstate = SM_IDLE])
  ELSE IF es.range_low
  THEN [BT_brake([t EXCEPT !.bt.m_forced = FC_NONE], TRUE)
          EXCEPT !.bt.m_mstate = SM_AVOIDING]
  ELSE IF t.bt.m_forced = FC_DEPTH
          /\ es.depth + es.alt - t.bt.m_z_ref.value < btd_depth_limit
  THEN [BT_dispatchSameZ([t EXCEPT !.bt.m_forced = FC_NONE])
          EXCEPT !.bt.m_mstate = SM_TRACKING]
  ELSE t

\* BottomTracker::onUnsafe.
BT_onUnsafe(t, es) ==
  LET t1 == BT_isAltitudeValid(t, es)
  IN IF ~t1.bt.m_valid_alt
     THEN IF es.top_cleared
          THEN [BT_dispatchSameZ(t1) EXCEPT !.bt.m_mstate = SM_TRACKING]
          ELSE t1
     ELSE IF es.alt < btd_min_alt \/ es.range_low
     THEN [BT_brake(t1, TRUE) EXCEPT !.bt.m_mstate = SM_AVOIDING]
     ELSE IF es.surface
     THEN [BT_dispatchSameZ(t1) EXCEPT !.bt.m_mstate = SM_TRACKING]
     ELSE IF ~es.too_steep
     THEN IF es.top_cleared
          THEN [BT_dispatchSameZ(t1) EXCEPT !.bt.m_mstate = SM_TRACKING]
          ELSE t1
     ELSE IF es.slope_increasing
     THEN BT_dispatchSafeDepth(t1, es)
     ELSE t1

\* onAvoiding without the test for an echo of the surface.
BT_onAvoidingDespiteSurface(t, es) ==
  LET t1 == BT_isAltitudeValid(t, es)
  IN IF ~t1.bt.m_valid_alt THEN t1
     ELSE IF /\ ~es.too_steep
             /\ t1.bt.m_z_ref.z_units = Z_ALTITUDE
             /\ es.alt >= t1.bt.m_z_ref.value
     THEN [BT_dispatchSameZ(BT_brake(t1, FALSE))
             EXCEPT !.bt.m_mstate = SM_TRACKING]
     ELSE t1

\* BottomTracker::onAvoiding.
BT_onAvoiding(t, es) ==
  IF es.surface THEN t
  ELSE LET t1 == BT_isAltitudeValid(t, es)
       IN IF ~t1.bt.m_valid_alt THEN t1
          ELSE IF /\ ~es.too_steep
                  /\ t1.bt.m_z_ref.z_units = Z_ALTITUDE
                  /\ es.alt >= t1.bt.m_z_ref.value
          THEN [BT_dispatchSameZ(BT_brake(t1, FALSE))
                  EXCEPT !.bt.m_mstate = SM_TRACKING]
          ELSE t1

\* BottomTracker::updateStateMachine.
BT_updateStateMachine(t, es) ==
  IF ~t.bt.m_active THEN t
  ELSE IF ~t.bt.m_got_data
          /\ (t.bt.m_z_ref.z_units = Z_NONE \/ t.bt.m_dspeed <= 0)
  THEN t
  ELSE LET t1 == [t EXCEPT !.bt.m_got_data = TRUE]
       IN CASE t1.bt.m_mstate = SM_IDLE -> BT_onIdle(t1, es)
            [] t1.bt.m_mstate = SM_TRACKING -> BT_onTracking(t1, es)
            [] t1.bt.m_mstate = SM_DEPTH -> BT_onDepth(t1, es)
            [] t1.bt.m_mstate = SM_UNSAFE -> BT_onUnsafe(t1, es)
            [] t1.bt.m_mstate = SM_AVOIDING -> BT_onAvoiding(t1, es)

BT_onEstimatedStateNoRate(t, es) ==
  IF ~t.bt.m_active THEN t
  ELSE [BT_updateStateMachine(t, es) EXCEPT !.bt.m_last_run = t.now]

\* BottomTracker::onEstimatedState.  The control parcel it dispatches is a
\* debug message and is left out.
BT_onEstimatedState(t, es) ==
  IF ~t.bt.m_active THEN t
  ELSE IF t.now - t.bt.m_last_run > btd_control_period
  THEN [BT_updateStateMachine(t, es) EXCEPT !.bt.m_last_run = t.now]
  ELSE t

\* ----------------------------------------------------------- PathController
\* Initialization of the along-track monitoring data (in consume(DesiredPath)
\* and when the monitors resume after braking).
Path_initAlongTrack(t) ==
  [t EXCEPT !.p.m_atm = [diverging |-> FALSE,
                         time |-> t.p.m_ts.now + m_atm_period,
                         last_err |-> t.p.m_ts.track_pos.x,
                         last_course_err |-> Abs(t.p.m_ts.course_error)]]

Path_monitorAlongTrackErrorSticky(t) ==
  IF t.p.m_ts.now < t.p.m_atm.time THEN t
  ELSE LET onx == Abs(t.p.m_ts.course_error) < c_half_pi
           min_expected == IF onx THEN m_atm_period * m_atm_min_speed
                           ELSE m_atm_period * m_atm_min_yaw
           progress == IF onx THEN t.p.m_ts.track_pos.x - t.p.m_atm.last_err
                       ELSE Abs(t.p.m_atm.last_course_err) - Abs(t.p.m_ts.course_error)
           t2 == IF t.p.m_atm.diverging
                 THEN IF progress >= min_expected
                      THEN [t EXCEPT !.p.m_atm.diverging = FALSE]
                      ELSE Path_signalError(t, "along-track divergence error")
                 ELSE IF progress < min_expected
                      THEN [t EXCEPT !.p.m_atm.diverging = TRUE]
                      ELSE t
       IN [t2 EXCEPT !.p.m_atm.time = @ + m_atm_period,
                     !.p.m_atm.last_err = t.p.m_ts.track_pos.x,
                     !.p.m_atm.last_course_err = Abs(t.p.m_ts.course_error)]

\* PathController::monitorAlongTrackError.
Path_monitorAlongTrackError(t) ==
  IF t.p.m_ts.now < t.p.m_atm.time THEN t
  ELSE LET onx == Abs(t.p.m_ts.course_error) < c_half_pi
           t1 == IF onx /\ t.p.m_atm.diverging
                    /\ t.p.m_atm.last_course_err >= c_half_pi
                 THEN [t EXCEPT !.p.m_atm.diverging = FALSE]
                 ELSE t
           min_expected == IF onx THEN m_atm_period * m_atm_min_speed
                           ELSE m_atm_period * m_atm_min_yaw
           progress == IF onx THEN t.p.m_ts.track_pos.x - t.p.m_atm.last_err
                       ELSE Abs(t.p.m_atm.last_course_err) - Abs(t.p.m_ts.course_error)
           t2 == IF t1.p.m_atm.diverging
                 THEN IF progress >= min_expected
                      THEN [t1 EXCEPT !.p.m_atm.diverging = FALSE]
                      ELSE Path_signalError(t1, "along-track divergence error")
                 ELSE IF progress < min_expected
                      THEN [t1 EXCEPT !.p.m_atm.diverging = TRUE]
                      ELSE t1
       IN [t2 EXCEPT !.p.m_atm.time = @ + m_atm_period,
                     !.p.m_atm.last_err = t.p.m_ts.track_pos.x,
                     !.p.m_atm.last_course_err = Abs(t.p.m_ts.course_error)]

Path_monitorCrossTrackErrorNoRecovery(t) ==
  LET d == Abs(t.p.m_ts.track_pos.y)
  IN IF d >= m_ctm_distance_limit + m_ctm_nav_uncertainty
     THEN IF ~t.p.m_ctm.diverging
          THEN [t EXCEPT !.p.m_ctm = [diverging |-> TRUE,
                                      divergence_started |-> t.p.m_ts.now]]
          ELSE IF t.p.m_ts.now - t.p.m_ctm.divergence_started >= m_ctm_time_limit
          THEN Path_signalError(t, "cross-track divergence error")
          ELSE t
     ELSE t

\* PathController::monitorCrossTrackError.
Path_monitorCrossTrackError(t) ==
  LET d == Abs(t.p.m_ts.track_pos.y)
  IN IF d >= m_ctm_distance_limit + m_ctm_nav_uncertainty
     THEN IF ~t.p.m_ctm.diverging
          THEN [t EXCEPT !.p.m_ctm = [diverging |-> TRUE,
                                      divergence_started |-> t.p.m_ts.now]]
          ELSE IF t.p.m_ts.now - t.p.m_ctm.divergence_started >= m_ctm_time_limit
          THEN Path_signalError(t, "cross-track divergence error")
          ELSE t
     ELSE IF t.p.m_ctm.diverging
     THEN [t EXCEPT !.p.m_ctm.diverging = FALSE]
     ELSE t

\* PathController::consume(const IMC::Brake*).
Path_consumeBrake(t, brake) == [t EXCEPT !.p.m_braking = (brake.op = "OP_START")]

Path_startPointNotNearby(t, dpath) ==
  IF "FL_START" \in dpath.flags THEN dpath.start
  ELSE IF /\ ~(~t.p.m_tracking /\ t.now - t.p.m_ts.end_time > 1)
          /\ ~t.p.m_ts.nearby
  THEN t.p.m_pcs_end
  ELSE "estate"

\* The start point consume(DesiredPath) chooses: the message's, the position of
\* m_estate ("estate"), or the end of the previous path.
Path_startPoint(t, dpath) ==
  IF "FL_START" \in dpath.flags THEN dpath.start
  ELSE IF \/ ~t.p.m_tracking /\ t.now - t.p.m_ts.end_time > 1
          \/ ~t.p.m_ts.nearby /\ ~t.p.m_ts.loitering
          \/ "FL_DIRECT" \in dpath.flags
  THEN "estate"
  ELSE t.p.m_pcs_end

Path_consumeDesiredPathInactive(t, dpath) ==
  Path_dispatch([t EXCEPT !.p.m_tracking = TRUE, !.p.m_ts.now = t.now],
                [kind |-> "DesiredSpeed", value |-> dpath.speed])

\* PathController::consume(const IMC::DesiredPath*), the vehicle being at
\* dpath.pos in the coordinates of the new track, of length dpath.track_length.
Path_consumeDesiredPath(t, dpath) ==
  IF ~t.active THEN t
  ELSE
    LET t1 == [t EXCEPT !.p.m_pcs_flags = {},
                        !.p.m_pcs_start = Path_startPoint(t, dpath),
                        !.p.m_pcs_end = IF "FL_LOITER_CURR" \in dpath.flags
                                           /\ dpath.lradius > 0
                                        THEN "estate" ELSE dpath.end,
                        !.p.m_pcs_end_z_units = dpath.end_z_units,
                        !.p.m_ts.end_z = dpath.end_z,
                        !.p.m_ts.track_length = dpath.track_length,
                        !.p.m_ts.end_time = -1,
                        !.p.m_ts.now = t.now,
                        !.p.m_tracking = TRUE]
        zref == DesiredZMsg(dpath.end_z, dpath.end_z_units)
        t2 == IF "FL_NO_Z" \notin dpath.flags
              THEN LET a == [t1 EXCEPT !.p.m_ts.z_control = TRUE]
                       b == IF dpath.end_z_units = Z_ALTITUDE
                            THEN Path_enableControlLoops(
                                   Path_disableControlLoops(a, {CL_DEPTH}), {CL_ALTITUDE})
                            ELSE IF dpath.end_z_units = Z_DEPTH
                            THEN Path_enableControlLoops(
                                   Path_disableControlLoops(a, {CL_ALTITUDE}), {CL_DEPTH})
                            ELSE a
                   IN IF t.btd_enabled THEN BT_onDesiredZ(b, zref, TRUE)
                      ELSE Path_dispatch(b, zref)
              ELSE [t1 EXCEPT !.p.m_ts.z_control = FALSE,
                              !.p.m_pcs_flags = @ \cup {"FL_NO_Z"}]
        t3 == Path_dispatchLoop(Path_enableControlLoops(t2, {CL_SPEED}),
                                [kind |-> "DesiredSpeed", value |-> dpath.speed])
        t4 == [t3 EXCEPT !.p.m_ts.loitering = FALSE,
                         !.p.m_ts.nearby = FALSE,
                         !.p.m_ts.lradius = dpath.lradius,
                         !.p.m_ts.clockwise = ("FL_CCLOCKW" \notin dpath.flags),
                         !.p.m_ts.end =
                           IF dpath.lradius > 0 THEN "circle" ELSE t1.p.m_pcs_end]
        t5 == Path_updateEntityState(
                Path_reportPathControlState(
                  Path_updateTrackingState(t4, dpath.pos), TRUE), "")
        t6 == Path_initAlongTrack(t5)
    IN [t6 EXCEPT !.p.m_ctm.diverging = FALSE]

\* PathController::consume(const IMC::Distance*); onDistance of SlopeData may
\* throw std::runtime_error.
Path_consumeDistance(t, dist) ==
  IF t.btd_enabled /\ dist.throws
  THEN LET t1 == IF t.p.m_braking
                 THEN [Path_dispatch(t, BrakeMsg("OP_STOP")) EXCEPT !.p.m_braking = FALSE]
                 ELSE t
       IN Path_signalError(t1, "distance")
  ELSE t

\* PathController::consume(const IMC::DesiredZ*) and DesiredSpeed.
Path_consumeDesiredZ(t, zref) ==
  IF t.btd_enabled THEN BT_onDesiredZ(t, zref, FALSE) ELSE t

Path_consumeDesiredSpeed(t, dspeed) ==
  IF t.btd_enabled THEN BT_onDesiredSpeed(t, dspeed) ELSE t

\* The control step with the monitors running while braking.
Path_controlStepMonitorsAlways(t, es) ==
  LET t1 == [t EXCEPT !.p.m_ts.now = t.now]
  IN IF t1.p.m_ts.nearby /\ t1.p.m_ts.now - t1.p.m_ts.end_time >= c_new_ref_timeout
     THEN Path_signalError(t1, "expected new path control reference")
     ELSE
       LET prev_nearby == t1.p.m_ts.nearby
           t2 == Path_updateTrackingState(t1, es)
           t3 == Path_reportPathControlState(t2, ~prev_nearby /\ t2.p.m_ts.nearby)
           t4 == IF ~t3.p.m_running_monitors
                 THEN LET a == IF ~t3.p.m_ts.loitering
                               THEN Path_initAlongTrack(t3) ELSE t3
                      IN [a EXCEPT !.p.m_ctm.diverging = FALSE,
                                   !.p.m_running_monitors = TRUE]
                 ELSE t3
           t5 == IF t4.p.m_running_monitors /\ ~t4.p.m_ts.loitering
                 THEN Path_monitorAlongTrackError(t4) ELSE t4
           t6 == IF t5.p.m_running_monitors
                 THEN Path_monitorCrossTrackError(t5) ELSE t5
       IN IF ~t6.p.m_ts.loitering /\ t6.p.m_ts.nearby /\ t6.p.m_ts.lradius > 0
          THEN [t6 EXCEPT !.p.m_ts.end = t6.p.m_pcs_end,
                          !.p.m_ts.loitering = TRUE, !.p.m_ts.nearby = FALSE]
          ELSE t6

\* The control step entering the loiter without clearing nearby.
Path_controlStepKeepsNearby(t, es) ==
  LET t1 == [t EXCEPT !.p.m_ts.now = t.now]
  IN IF t1.p.m_ts.nearby /\ t1.p.m_ts.now - t1.p.m_ts.end_time >= c_new_ref_timeout
     THEN Path_signalError(t1, "expected new path control reference")
     ELSE
       LET prev_nearby == t1.p.m_ts.nearby
           t2 == Path_updateTrackingState(t1, es)
           t3 == Path_reportPathControlState(t2, ~prev_nearby /\ t2.p.m_ts.nearby)
           t4 == IF t3.p.m_braking
                 THEN [t3 EXCEPT !.p.m_running_monitors = FALSE]
                 ELSE IF ~t3.p.m_running_monitors
                 THEN LET a == IF ~t3.p.m_ts.loitering
                               THEN Path_initAlongTrack(t3) ELSE t3
                      IN [a EXCEPT !.p.m_ctm.diverging = FALSE,
                                   !.p.m_running_monitors = TRUE]
                 ELSE t3
           t5 == IF t4.p.m_running_monitors /\ ~t4.p.m_ts.loitering
                 THEN Path_monitorAlongTrackError(t4) ELSE t4
           t6 == IF t5.p.m_running_monitors
                 THEN Path_monitorCrossTrackError(t5) ELSE t5
       IN IF ~t6.p.m_ts.loitering /\ t6.p.m_ts.nearby /\ t6.p.m_ts.lradius > 0
          THEN [t6 EXCEPT !.p.m_ts.end = t6.p.m_pcs_end, !.p.m_ts.loitering = TRUE]
          ELSE t6

\* The part of consume(EstimatedState) that follows the rate limit.  The
\* loiter centre is the end of the path that set the loiter radius, which
\* m_pcs_end keeps; the track end of such a path is a point of the circle.
Path_controlStep(t, es) ==
  LET t1 == [t EXCEPT !.p.m_ts.now = t.now]
  IN IF t1.p.m_ts.nearby /\ t1.p.m_ts.now - t1.p.m_ts.end_time >= c_new_ref_timeout
     THEN Path_signalError(t1, "expected new path control reference")
     ELSE
       LET prev_nearby == t1.p.m_ts.nearby
           t2 == Path_updateTrackingState(t1, es)
           t3 == Path_reportPathControlState(t2, ~prev_nearby /\ t2.p.m_ts.nearby)
           t4 == IF t3.p.m_braking
                 THEN [t3 EXCEPT !.p.m_running_monitors = FALSE]
                 ELSE IF ~t3.p.m_running_monitors
                 THEN LET a == IF ~t3.p.m_ts.loitering
                               THEN Path_initAlongTrack(t3) ELSE t3
                      IN [a EXCEPT !.p.m_ctm.diverging = FALSE,
                                   !.p.m_running_monitors = TRUE]
                 ELSE t3
           t5 == IF t4.p.m_running_monitors /\ ~t4.p.m_ts.loitering
                 THEN Path_monitorAlongTrackError(t4) ELSE t4
           t6 == IF t5.p.m_running_monitors
                 THEN Path_monitorCrossTrackError(t5) ELSE t5
       IN IF ~t6.p.m_ts.loitering /\ t6.p.m_ts.nearby /\ t6.p.m_ts.lradius > 0
          THEN [t6 EXCEPT !.p.m_ts.end = t6.p.m_pcs_end,
                          !.p.m_ts.loitering = TRUE, !.p.m_ts.nearby = FALSE]
          ELSE t6

\* consume(EstimatedState) that goes on after an error.
Path_consumeEstimatedStateDespiteError(t, es) ==
  LET t1 == IF t.btd_enabled THEN BT_onEstimatedState(t, es) ELSE t
      t2 == IF t1.p.m_setup
            THEN Path_updateEntityState([t1 EXCEPT !.p.m_setup = FALSE], "")
            ELSE t1
  IN IF ~t2.active \/ ~t2.p.m_tracking THEN t2
     ELSE IF t2.now < t2.p.m_ts.now + m_cperiod THEN t2
     ELSE Path_controlStep(t2, es)

\* PathController::consume(const IMC::EstimatedState*).
Path_consumeEstimatedState(t, es) ==
  LET t1 == IF t.btd_enabled THEN BT_onEstimatedState(t, es) ELSE t
      t2 == IF t1.p.m_setup
            THEN Path_updateEntityState([t1 EXCEPT !.p.m_setup = FALSE], "")
            ELSE t1
  IN IF ~t2.active \/ t2.p.m_error \/ ~t2.p.m_tracking THEN t2
     ELSE IF t2.now < t2.p.m_ts.now + m_cperiod THEN t2
     ELSE Path_controlStep(t2, es)

Path_onActivationNoTracker(t) ==
  Path_updateEntityState(
    [t EXCEPT !.p.m_error = FALSE, !.p.m_tracking = FALSE, !.p.m_braking = FALSE], "")

\* PathController::onActivation.
Path_onActivation(t) ==
  LET t1 == Path_updateEntityState(
              [t EXCEPT !.p.m_error = FALSE, !.p.m_tracking = FALSE,
                        !.p.m_braking = FALSE], "")
  IN IF t.btd_enabled THEN BT_activate(t1) ELSE t1

\* PathController::onDeactivation.
Path_onDeactivation(t) ==
  LET t1 == IF t.p.m_ts.z_control
            THEN Path_disableControlLoops(t,
                   IF t.p.m_ts.end_z < 0 THEN {CL_ALTITUDE} ELSE {CL_DEPTH})
            ELSE t
      t2 == Path_updateEntityState(
              [t1 EXCEPT !.p.m_ts.end_time = t.now, !.p.m_error = FALSE], "")
  IN IF t.btd_enabled
     THEN LET t3 == BT_deactivate(t2)
          IN IF t3.p.m_braking
             THEN [Path_dispatch(t3, BrakeMsg("OP_STOP")) EXCEPT !.p.m_braking = FALSE]
             ELSE t3
     ELSE t2

\* Tasks::Task::activate and deactivate of the path controller.
Path_activate(t) == Path_onActivation([t EXCEPT !.active = TRUE])

Path_deactivate(t) == Path_onDeactivation([t EXCEPT !.active = FALSE])

\* PathController::consume(const IMC::ControlLoops*).
Path_consumeControlLoops(t, cloops) ==
  LET t1 == [t EXCEPT !.p.m_aloops = IF cloops.enable THEN @ \cup cloops.mask
                                     ELSE @ \ cloops.mask]
  IN IF CL_PATH \notin cloops.mask THEN t1
     ELSE IF t1.active # cloops.enable
     THEN IF cloops.enable THEN Path_activate(t1) ELSE Path_deactivate(t1)
     ELSE t1

\* ------------------------------------------------- the path controller runs
\* Radius of the loiter a DesiredPath may ask for, length of its track.
LoiterRadius == 50
TrackLength == 10

\* The vehicle on the track, x along it.
OnTrack(x) == [x |-> x, y |-> 0, ce |-> 0, speed |-> 1]
\* What the echo sounder and SlopeData see below and ahead of the vehicle:
\* free water, the bottom too close, a slope too steep, very deep water, the
\* vehicle near the surface.
FreeWater == [alt |-> 30, depth |-> 20, surface |-> FALSE, range_low |-> FALSE,
              too_steep |-> FALSE, top_cleared |-> TRUE,
              slope_increasing |-> FALSE, depth_at_slope |-> 50]
Bottoms ==
  {FreeWater,
   [FreeWater EXCEPT !.alt = 5],
   [FreeWater EXCEPT !.too_steep = TRUE, !.top_cleared = FALSE,
                     !.slope_increasing = TRUE],
   [FreeWater EXCEPT !.depth = 500],
   [FreeWater EXCEPT !.depth = 2, !.surface = TRUE]}

EstimatedStateMsg(pos, b) ==
  [kind |-> "EstimatedState", x |-> pos.x, y |-> pos.y, ce |-> pos.ce,
   speed |-> pos.speed, range |-> LoiterRadius + pos.y,
   alt |-> b.alt, depth |-> b.depth, surface |-> b.surface,
   range_low |-> b.range_low, too_steep |-> b.too_steep,
   top_cleared |-> b.top_cleared, slope_increasing |-> b.slope_increasing,
   depth_at_slope |-> b.depth_at_slope]

\* The missions the controller is run in.  Each pairs the tracks and the
\* water the vehicle meets: "reference" a vehicle that reaches the end of its
\* track, "along" one that stalls or turns across it, "cross" one that drifts
\* off it, "bottom" one that follows the bottom with "Bottom Track -- Enabled".
Missions == {"reference", "along", "cross", "bottom"}

PositionsOf(mi) ==
  CASE mi = "reference" -> {OnTrack(2), OnTrack(TrackLength)}
    [] mi = "along" -> {OnTrack(0), OnTrack(2), [OnTrack(0) EXCEPT !.ce = c_half_pi]}
    [] mi = "cross" -> {OnTrack(2), [OnTrack(0) EXCEPT !.y = m_ctm_distance_limit]}
    [] mi = "bottom" -> {OnTrack(2)}

EstimatedStatesOf(mi) ==
  {EstimatedStateMsg(pos, b) :
     pos \in PositionsOf(mi),
     b \in IF mi = "bottom" THEN Bottoms ELSE {FreeWater}}

EstimatedStates == UNION {EstimatedStatesOf(mi) : mi \in Missions}

DesiredPathMsg(z, units, flags, lradius, pos) ==
  [kind |-> "DesiredPath", end_z |-> z, end_z_units |-> units, flags |-> flags,
   speed |-> 1, lradius |-> lradius, track_length |-> TrackLength, pos |-> pos,
   start |-> "S", end |-> IF pos.x = 0 THEN "A" ELSE "B"]

DesiredPathsOf(mi) ==
  CASE mi = "reference" ->
         {DesiredPathMsg(20, Z_DEPTH, {}, 0, OnTrack(0)),
          DesiredPathMsg(20, Z_DEPTH, {}, 0, OnTrack(TrackLength)),
          DesiredPathMsg(20, Z_DEPTH, {}, LoiterRadius, OnTrack(TrackLength)),
          DesiredPathMsg(20, Z_DEPTH, {"FL_START"}, 0, OnTrack(0)),
          DesiredPathMsg(20, Z_ALTITUDE, {"FL_DIRECT"}, 0, OnTrack(0))}
    [] mi = "along" -> {DesiredPathMsg(0, Z_NONE, {"FL_NO_Z"}, 0, OnTrack(0))}
    [] mi = "cross" -> {DesiredPathMsg(20, Z_ALTITUDE, {}, 0, OnTrack(0))}
    [] mi = "bottom" ->
         {DesiredPathMsg(20, Z_ALTITUDE, {}, 0, OnTrack(0))}

DesiredPaths == UNION {DesiredPathsOf(mi) : mi \in Missions}

PathControlLoopsMsgs ==
  [kind : {"ControlLoops"}, enable : BOOLEAN, mask : {{CL_PATH}}]

Distances == [kind : {"Distance"}, throws : BOOLEAN]

DesiredZs == {DesiredZMsg(20, Z_DEPTH)}

DesiredSpeeds == [kind : {"DesiredSpeed"}, value : {1}]

Brakes == {BrakeMsg("OP_START"), BrakeMsg("OP_STOP")}

\* In "bottom" the tracker is the only task that brakes.
BrakesOf(mi) == IF mi = "bottom" THEN {} ELSE Brakes

\* The path controller after a handler ran; a handler runs when the queue has
\* room for what it dispatches with DF_LOOP_BACK.
PathCommit(t) ==
  /\ Len(t.loop) <= MaxLoopBack
  /\ pc_active' = t.active
  /\ pc' = t.p
  /\ btrack' = t.bt
  /\ pc_loop' = t.loop
  /\ brake_op' = t.brake

PathControlLoops ==
  \E cloops \in PathControlLoopsMsgs :
    /\ PathCommit(Path_consumeControlLoops(PathCur, cloops))
    /\ UNCHANGED <<supVars, now, manVars, pathConf, modemVars>>

PathDesiredPath ==
  \E dpath \in DesiredPathsOf(mission) :
    /\ PathCommit(Path_consumeDesiredPath(PathCur, dpath))
    /\ UNCHANGED <<supVars, now, manVars, pathConf, modemVars>>

PathEstimatedState ==
  \E es \in EstimatedStatesOf(mission) :
    /\ PathCommit(Path_consumeEstimatedState(PathCur, es))
    /\ UNCHANGED <<supVars, now, manVars, pathConf, modemVars>>

PathDistance ==
  \E dist \in Distances :
    /\ PathCommit(Path_consumeDistance(PathCur, dist))
    /\ UNCHANGED <<supVars, now, manVars, pathConf, modemVars>>

\* A DesiredZ, DesiredSpeed or Brake of another task.
PathDesiredZ ==
  \E zref \in DesiredZs :
    /\ PathCommit(Path_consumeDesiredZ(PathCur, zref))
    /\ UNCHANGED <<supVars, now, manVars, pathConf, modemVars>>

PathDesiredSpeed ==
  \E dspeed \in DesiredSpeeds :
    /\ PathCommit(Path_consumeDesiredSpeed(PathCur, dspeed))
    /\ UNCHANGED <<supVars, now, manVars, pathConf, modemVars>>

PathBrake ==
  \E brake \in BrakesOf(mission) :
    /\ PathCommit(Path_consumeBrake(PathCur, brake))
    /\ UNCHANGED <<supVars, now, manVars, pathConf, modemVars>>

\* Path_consumeLoopBack: the controller consumes the oldest message it
\* dispatched to itself.
PathLoopBack ==
  /\ pc_loop # <<>>
  /\ LET msg == Head(pc_loop)
         t == [PathCur EXCEPT !.loop = Tail(@)]
     IN PathCommit(IF msg.kind = "Brake" THEN Path_consumeBrake(t, msg)
                   ELSE Path_consumeDesiredSpeed(t, msg))
  /\ UNCHANGED <<supVars, now, manVars, pathConf, modemVars>>

\* Time passes for the path controller.
PathTick ==
  /\ now < MaxPathTime
  /\ now' = now + 1
  /\ UNCHANGED <<supVars, manVars, pathVars, modemVars>>

PathNext ==
  \/ PathControlLoops
  \/ PathDesiredPath
  \/ PathEstimatedState
  \/ PathDistance
  \/ PathDesiredZ
  \/ PathDesiredSpeed
  \/ PathBrake
  \/ PathLoopBack
  \/ PathTick

\* The controller runs one of the missions, the bottom tracker enabled in
\* "bottom".
PathInit ==
  /\ ManeuverInit
  /\ PathControllerInit
  /\ ModemTaskInit
  /\ mission \in Missions
  /\ btd_enabled = (mission = "bottom")
  /\ SupervisorInit
  /\ safe_ents = <<>>

PathSpec == PathInit /\ [][PathNext]_vars

\* ---------------------------------------------- claims on the path controller
\* The kinds of the messages of a bus.
PathKinds(b) == {b[i].kind : i \in 1..Len(b)}

\* C14: a DesiredPath consumed while the path controller is not active is
\* rejected: the tracking state, the path-control state, the monitor state and
\* the active-loop mask are unchanged, and no DesiredZ, DesiredSpeed,
\* ControlLoops or PathControlState is published.
C14_InactiveRejectsDesiredPath ==
  ~pc_active =>
    \A dpath \in DesiredPaths :
      LET r == Path_consumeDesiredPath(PathCur, dpath)
      IN /\ r.p.m_ts = pc.m_ts
         /\ r.p.m_tracking = pc.m_tracking
         /\ r.p.m_pcs_flags = pc.m_pcs_flags
         /\ r.p.m_last_pcs_report = pc.m_last_pcs_report
         /\ r.p.m_atm = pc.m_atm
         /\ r.p.m_ctm = pc.m_ctm
         /\ r.p.m_aloops = pc.m_aloops
         /\ r.bt = btrack
         /\ r.loop = pc_loop
         /\ PathKinds(r.bus) \cap {"DesiredZ", "DesiredSpeed", "ControlLoops",
                                   "PathControlState"} = {}

\* C14 happens: the controller was deactivated while it followed a track, and
\* a DesiredPath for another end point arrives.
C14_Witness ==
  /\ ~pc_active
  /\ pc.m_tracking
  /\ pc.m_ts.track_length = TrackLength
  /\ \E dpath \in DesiredPathsOf(mission) :
       /\ dpath.pos.x # pc.m_ts.track_pos.x
       /\ Path_consumeDesiredPath(PathCur, dpath).p = pc

\* consume(EstimatedState) gets past its early returns: the controller is
\* active, not in error, tracking, and a control period has passed.
Processed(t) ==
  /\ t.active
  /\ ~t.p.m_error
  /\ t.p.m_tracking
  /\ t.now >= t.p.m_ts.now + m_cperiod

NewReferenceError ==
  [state |-> "ESTA_ERROR", description |-> "expected new path control reference"]

\* C15: once nearby has been asserted for the current path, the first
\* EstimatedState processed new_ref_timeout (5 s) or more after the instant it
\* was asserted signals "expected new path control reference" and the entity
\* goes to ERROR, and one processed earlier does not; end_time is that
\* instant; a DesiredPath accepted in between clears nearby, or asserts it
\* afresh for the new path, and signals no error.
C15_NewReferenceTimeout ==
  /\ \A es \in EstimatedStates :
       LET r == Path_consumeEstimatedState(PathCur, es)
           late == pc.m_ts.nearby /\ now - pc.m_ts.end_time >= c_new_ref_timeout
       IN /\ (Processed(PathCur) /\ late) =>
               r.p.m_error /\ r.p.entity = NewReferenceError
          /\ (r.p.entity = NewReferenceError /\ pc.entity # NewReferenceError) =>
               Processed(PathCur) /\ late
          /\ (r.p.m_ts.nearby /\ ~pc.m_ts.nearby) => r.p.m_ts.end_time = now
          /\ (r.p.m_ts.nearby /\ pc.m_ts.nearby) => r.p.m_ts.end_time = pc.m_ts.end_time
  /\ \A dpath \in DesiredPaths :
       LET r == Path_consumeDesiredPath(PathCur, dpath)
       IN pc_active =>
            /\ r.p.m_ts.nearby => r.p.m_ts.end_time = now
            /\ r.p.m_error = pc.m_error
            /\ r.p.entity # NewReferenceError

\* C15 happens: the vehicle came near the end of its track, no DesiredPath
\* followed, and the EstimatedState processed 5 s later signalled the error.
C15_Witness ==
  /\ pc_active
  /\ pc.m_error
  /\ pc.entity = NewReferenceError
  /\ pc.m_ts.nearby
  /\ ~pc.m_ts.loitering
  /\ pc.m_ts.now - pc.m_ts.end_time >= c_new_ref_timeout

\* C16: whenever the bottom tracker is in AVOIDING, a Brake{op=START} has
\* been dispatched and no Brake{op=STOP} has been dispatched since, by the
\* tracker or by its path controller.
C16_AvoidingMeansBraking ==
  (btd_enabled /\ btrack.m_mstate = SM_AVOIDING) => brake_op = "OP_START"

\* C17: the bottom tracker publishes a DesiredZ or a Brake only while its path
\* controller is active: the tracker's active flag equals the controller's,
\* also right after every activation and deactivation; while they are
\* inactive an EstimatedState makes no step of the tracker and publishes
\* neither, and no DesiredPath or DesiredZ makes the tracker publish a Z
\* reference.
C17_TrackerFollowsController ==
  btd_enabled =>
    /\ btrack.m_active = pc_active
    /\ \A cloops \in PathControlLoopsMsgs :
         LET r == Path_consumeControlLoops(PathCur, cloops)
         IN /\ r.bt.m_active = r.active
            /\ ~r.active => r.loop = pc_loop
    /\ ~pc_active =>
         /\ \A es \in EstimatedStates :
              LET r == Path_consumeEstimatedState(PathCur, es)
              IN /\ r.bt = btrack
                 /\ PathKinds(r.bus) \cap {"DesiredZ", "Brake"} = {}
         /\ \A dpath \in DesiredPaths :
              "DesiredZ" \notin PathKinds(Path_consumeDesiredPath(PathCur, dpath).bus)
         /\ \A zref \in DesiredZs :
              LET r == Path_consumeDesiredZ(PathCur, zref)
              IN r.bt = btrack /\ r.bus = <<>>

\* C17 happens: the tracker ran its state machine for an active controller,
\* and the controller was deactivated.
C17_Witness ==
  /\ btd_enabled
  /\ ~pc_active
  /\ ~btrack.m_active
  /\ btrack.m_got_data
  /\ btrack.m_mstate = SM_TRACKING

\* consume(EstimatedState) of es runs the along-track check: it is processed
\* without the new-reference timeout, the monitors run (no braking now or at
\* the last control step), the controller does not loiter and the check is due.
AlongTrackCheck(es) ==
  /\ Processed(PathCur)
  /\ ~(pc.m_ts.nearby /\ now - pc.m_ts.end_time >= c_new_ref_timeout)
  /\ ~pc.m_braking
  /\ pc.m_running_monitors
  /\ ~pc.m_ts.loitering
  /\ now >= pc.m_atm.time
  /\ Abs(es.y) < m_ctm_distance_limit + m_ctm_nav_uncertainty

\* The check of es measures progress on the along-track position.
OnAlongTrack(es) == Abs(es.ce) < c_half_pi

\* The check of es fails: progress is below the expected minimum.
AlongTrackFailed(es) ==
  IF OnAlongTrack(es)
  THEN es.x - pc.m_atm.last_err < m_atm_period * m_atm_min_speed
  ELSE Abs(pc.m_atm.last_course_err) - Abs(es.ce) < m_atm_period * m_atm_min_yaw

AlongTrackError ==
  [state |-> "ESTA_ERROR", description |-> "along-track divergence error"]

\* The along-track check of es, made by a monitor that is diverging or not,
\* follows the state machine.
AlongTrackMachine(es, diverging) ==
  LET r == Path_consumeEstimatedState(PathCur, es)
  IN /\ (~diverging /\ AlongTrackFailed(es)) =>
          r.p.m_atm.diverging /\ ~r.p.m_error
     /\ (~diverging /\ ~AlongTrackFailed(es)) =>
          ~r.p.m_atm.diverging /\ ~r.p.m_error
     /\ (diverging /\ ~AlongTrackFailed(es)) =>
          ~r.p.m_atm.diverging /\ ~r.p.m_error
     /\ (diverging /\ AlongTrackFailed(es)) =>
          r.p.m_error /\ r.p.entity = AlongTrackError
     /\ r.p.m_atm.time = pc.m_atm.time + m_atm_period

\* C18 as claimed: at each along-track check the monitor goes from nominal to
\* diverging when progress is below the minimum, from diverging to nominal
\* when it is not, and from diverging to the error when it still is, on
\* whichever of along-track position and course error progress is measured.
C18_AlongTrackStateMachine ==
  \A es \in EstimatedStates :
    AlongTrackCheck(es) => AlongTrackMachine(es, pc.m_atm.diverging)

\* C18 as amended: the same, except that a check measured on the along-track
\* position that follows a check made at a course error of 90 degrees or more
\* starts from nominal.
C18_AlongTrackStateMachineSameMeasure ==
  \A es \in EstimatedStates :
    AlongTrackCheck(es) =>
      AlongTrackMachine(es, /\ pc.m_atm.diverging
                            /\ ~(OnAlongTrack(es) /\ pc.m_atm.last_course_err >= c_half_pi))

\* C18 happens: two consecutive checks failed and the second signalled the
\* error.
C18_Witness ==
  /\ pc_active
  /\ pc.m_error
  /\ pc.entity = AlongTrackError
  /\ pc.m_atm.diverging
  /\ pc.m_atm.time = pc.m_ts.now + m_atm_period

\* consume(EstimatedState) runs the cross-track check: it is processed without
\* the new-reference timeout and the controller is not braking.
CrossTrackCheck ==
  /\ Processed(PathCur)
  /\ ~(pc.m_ts.nearby /\ now - pc.m_ts.end_time >= c_new_ref_timeout)
  /\ ~pc.m_braking

\* es finds the vehicle outside the cross-track band.
OutsideBand(es) == Abs(es.y) >= m_ctm_distance_limit + m_ctm_nav_uncertainty

CrossTrackError ==
  [state |-> "ESTA_ERROR", description |-> "cross-track divergence error"]

\* C19: while not braking, a control step that finds the vehicle outside the
\* band makes a nominal cross-track monitor diverging and records the time; a
\* step that still finds it outside time_limit seconds or more after that time
\* signals "cross-track divergence error", an earlier one changes nothing; a
\* step that finds it inside the band returns the monitor to nominal, so a
\* later excursion starts a new time window.  The monitor is nominal again
\* after braking.
C19_CrossTrackMonitor ==
  \A es \in EstimatedStates :
    LET r == Path_consumeEstimatedState(PathCur, es)
        diverging == pc.m_ctm.diverging /\ pc.m_running_monitors
        elapsed == now - pc.m_ctm.divergence_started
    IN CrossTrackCheck =>
         /\ (OutsideBand(es) /\ ~diverging) =>
              /\ r.p.m_ctm = [diverging |-> TRUE, divergence_started |-> now]
              /\ r.p.entity # CrossTrackError
         /\ (OutsideBand(es) /\ diverging /\ elapsed >= m_ctm_time_limit) =>
              /\ r.p.m_error
              /\ r.p.entity = CrossTrackError
         /\ (OutsideBand(es) /\ diverging /\ elapsed < m_ctm_time_limit) =>
              /\ r.p.m_ctm = pc.m_ctm
              /\ r.p.entity # CrossTrackError
         /\ ~OutsideBand(es) =>
              /\ ~r.p.m_ctm.diverging
              /\ r.p.entity # CrossTrackError

\* C19 happens: the vehicle left the band late in its track and stayed
\* outside for the time limit: the error was signalled on the time window
\* that excursion started.
C19_Witness ==
  /\ pc_active
  /\ pc.m_error
  /\ pc.entity = CrossTrackError
  /\ pc.m_ctm.diverging
  /\ pc.m_ctm.divergence_started >= 3
  /\ pc.m_ts.now - pc.m_ctm.divergence_started >= m_ctm_time_limit

\* es is delivered, and delivered again dt seconds later with no other
\* message consumed in between: the controller after the second delivery,
\* with only what the second delivery published on its bus.
Replayed(es, dt) ==
  LET first == Path_consumeEstimatedState(PathCur, es)
  IN Path_consumeEstimatedState([first EXCEPT !.bus = <<>>, !.now = now + dt], es)

\* The second delivery comes no later than the tracker's control period after
\* the tracker's last step.
WithinTrackerPeriod(es, dt) ==
  now + dt - Path_consumeEstimatedState(PathCur, es).bt.m_last_run <= btd_control_period

\* C20 as claimed: when the same EstimatedState is delivered a second time
\* with no other message in between, the second delivery publishes no
\* ControlLoops, no DesiredSpeed and no Brake, with the bottom tracker enabled
\* or disabled.
C20_ReplayPublishesNothing ==
  \A es \in EstimatedStates, dt \in 0..(MaxPathTime - now) :
    PathKinds(Replayed(es, dt).bus) \cap {"ControlLoops", "DesiredSpeed", "Brake"} = {}

\* C20 as amended: the second delivery publishes no ControlLoops and no
\* DesiredSpeed, and no Brake when the bottom tracker is disabled or made its
\* last step no more than its control period before.
C20_ReplayPublishesNoLoopsNoSpeed ==
  \A es \in EstimatedStates, dt \in 0..(MaxPathTime - now) :
    LET published == PathKinds(Replayed(es, dt).bus)
    IN /\ published \cap {"ControlLoops", "DesiredSpeed"} = {}
       /\ (~btd_enabled \/ WithinTrackerPeriod(es, dt)) => "Brake" \notin published

\* C20 happens: an EstimatedState with the bottom too close made the tracker
\* brake, and delivered again at once it publishes no Brake.
C20_Witness ==
  /\ btd_enabled
  /\ btrack.m_active
  /\ btrack.m_mstate = SM_AVOIDING
  /\ btrack.m_last_run = now
  /\ pc_loop = <<BrakeMsg("OP_START")>>
  /\ \E es \in EstimatedStatesOf(mission) :
       /\ es.alt < btd_min_alt
       /\ "Brake" \notin PathKinds(Path_consumeEstimatedState(PathCur, es).bus)

\* ---------------------------------------------------------------------------
\* Claims on the path reference: C21, C28, C29, C30.
\* ---------------------------------------------------------------------------

PathControlStates(b) == {i \in 1..Len(b) : b[i].kind = "PathControlState"}

\* C21: every DesiredPath accepted by an active path controller publishes
\* exactly one PathControlState while the message is handled, and that report
\* carries the start and the end of the new path; the report is part of the
\* handler, so it precedes any later EstimatedState.
C21_OnePathControlStatePerPath ==
  pc_active =>
    \A dpath \in DesiredPaths :
      LET r == Path_consumeDesiredPath(PathCur, dpath)
      IN /\ Cardinality(PathControlStates(r.bus)) = 1
         /\ \A i \in PathControlStates(r.bus) :
              /\ r.bus[i].start = Path_startPoint(PathCur, dpath)
              /\ r.bus[i].end = dpath.end
              /\ r.bus[i].start = r.p.m_pcs_start
              /\ r.bus[i].end = r.p.m_pcs_end
         /\ r.p.m_last_pcs_report = now

\* C21 happens: the controller already reported its state in this second for
\* a path to another end point, and the DesiredPath accepted now is reported
\* at once with its own start and end.
C21_Witness ==
  /\ pc_active
  /\ pc.m_tracking
  /\ pc.m_last_pcs_report = now
  /\ \E dpath \in DesiredPathsOf(mission) :
       LET r == Path_consumeDesiredPath(PathCur, dpath)
       IN /\ dpath.end # pc.m_pcs_end
          /\ \E i \in PathControlStates(r.bus) :
               r.bus[i].end = dpath.end /\ r.bus[i].start = pc.m_pcs_end

\* The test consume(DesiredPath) makes for "the previous path has ended".
PreviousPathEnded == ~pc.m_tracking /\ now - pc.m_ts.end_time > 1

\* C28 as stated: on an accepted DesiredPath the start of the new track is the
\* message's start when FL_START is set, otherwise the end of the previous
\* path when the previous path has not ended and the vehicle is not nearby,
\* otherwise the current estimated position.
C28_StartPointWhenNotNearby ==
  pc_active =>
    \A dpath \in DesiredPaths :
      Path_consumeDesiredPath(PathCur, dpath).p.m_pcs_start =
        IF "FL_START" \in dpath.flags THEN dpath.start
        ELSE IF ~PreviousPathEnded /\ ~pc.m_ts.nearby THEN pc.m_pcs_end
        ELSE "estate"

\* C28: on an accepted DesiredPath the start of the new track is the message's
\* start when FL_START is set; otherwise the end of the previous path when the
\* previous path has not ended, the vehicle is nearby or loitering and
\* FL_DIRECT is not set; otherwise the current estimated position. The
\* previous path has ended when the controller is not tracking and more than
\* 1 second has passed since end_time.
C28_StartPointWhenNearby ==
  pc_active =>
    \A dpath \in DesiredPaths :
      Path_consumeDesiredPath(PathCur, dpath).p.m_pcs_start =
        IF "FL_START" \in dpath.flags THEN dpath.start
        ELSE IF /\ ~PreviousPathEnded
                /\ pc.m_ts.nearby \/ pc.m_ts.loitering
                /\ "FL_DIRECT" \notin dpath.flags
        THEN pc.m_pcs_end
        ELSE "estate"

\* C28 happens: the vehicle is near the end of the path it tracks and the
\* next DesiredPath, without FL_START or FL_DIRECT, starts at that end; the
\* same message with FL_DIRECT starts at the estimated position.
C28_Witness ==
  /\ pc_active
  /\ pc.m_tracking
  /\ pc.m_ts.nearby
  /\ pc.m_pcs_end = "B"
  /\ \E dpath \in DesiredPathsOf(mission) :
       /\ dpath.flags = {}
       /\ Path_consumeDesiredPath(PathCur, dpath).p.m_pcs_start = "B"
  /\ \E dpath \in DesiredPathsOf(mission) :
       /\ dpath.flags = {"FL_DIRECT"}
       /\ Path_consumeDesiredPath(PathCur, dpath).p.m_pcs_start = "estate"

\* C29: a ControlLoops message whose mask includes CL_PATH activates the path
\* controller when it enables and the controller is inactive, deactivates it
\* when it disables and the controller is active, and otherwise leaves the
\* controller as it was; a deactivation with Z control in use disables the Z
\* loop of the last accepted path: CL_DEPTH when its end_z_units was DEPTH,
\* CL_ALTITUDE when it was ALTITUDE.
C29_PathLoopTogglesController ==
  \A cloops \in PathControlLoopsMsgs :
    LET r == Path_consumeControlLoops(PathCur, cloops)
    IN /\ (cloops.enable /\ ~pc_active) => r.active
       /\ (~cloops.enable /\ pc_active) =>
            /\ ~r.active
            /\ pc.m_ts.z_control =>
                 /\ pc.m_pcs_end_z_units = Z_DEPTH => CL_DEPTH \notin r.p.m_aloops
                 /\ pc.m_pcs_end_z_units = Z_ALTITUDE => CL_ALTITUDE \notin r.p.m_aloops
       /\ (cloops.enable = pc_active) =>
            /\ r.active = pc_active
            /\ [r.p EXCEPT !.m_aloops = pc.m_aloops] = pc
            /\ r.bt = btrack
            /\ r.bus = <<>>

ZLoopOf(units) == IF units = Z_DEPTH THEN CL_DEPTH ELSE CL_ALTITUDE

KindCount(b, kind) == Cardinality({i \in 1..Len(b) : b[i].kind = kind})

\* C30: on an accepted DesiredPath without FL_NO_Z whose end_z_units is DEPTH
\* or ALTITUDE, afterwards exactly the loop matching the units, of CL_DEPTH and
\* CL_ALTITUDE, is in the active-loop mask, a ControlLoops message being
\* published for each loop whose state changes; CL_SPEED is enabled and one
\* DesiredSpeed is published; with the bottom tracker disabled one DesiredZ
\* with the reference is published, with it enabled the reference becomes the
\* tracker's and the tracker decides on the publication.
C30_ZLoopsOfAcceptedPath ==
  pc_active =>
    \A dpath \in DesiredPaths :
      ("FL_NO_Z" \notin dpath.flags /\ dpath.end_z_units \in {Z_DEPTH, Z_ALTITUDE}) =>
        LET r == Path_consumeDesiredPath(PathCur, dpath)
            zloop == ZLoopOf(dpath.end_z_units)
            other == CHOOSE l \in {CL_DEPTH, CL_ALTITUDE} : l # zloop
            zref == DesiredZMsg(dpath.end_z, dpath.end_z_units)
            changed == {l \in {zloop, other, CL_SPEED} :
                          (l \in pc.m_aloops) # (l \in r.p.m_aloops)}
        IN /\ r.p.m_aloops \cap {CL_DEPTH, CL_ALTITUDE} = {zloop}
           /\ CL_SPEED \in r.p.m_aloops
           /\ r.p.m_aloops \ {CL_DEPTH, CL_ALTITUDE, CL_SPEED} =
                pc.m_aloops \ {CL_DEPTH, CL_ALTITUDE, CL_SPEED}
           /\ {r.bus[i] : i \in {j \in 1..Len(r.bus) : r.bus[j].kind = "ControlLoops"}} =
                {[kind |-> "ControlLoops", enable |-> l # other, mask |-> {l}] :
                   l \in changed}
           /\ KindCount(r.bus, "ControlLoops") = Cardinality(changed)
           /\ KindCount(r.bus, "DesiredSpeed") = 1
           /\ r.p.m_ts.z_control
           /\ ~btd_enabled =>
                /\ KindCount(r.bus, "DesiredZ") = 1
                /\ \E i \in 1..Len(r.bus) : r.bus[i] = zref
                /\ r.bt = btrack
           /\ btd_enabled =>
                /\ btrack.m_active =>
                     r.bt.m_z_ref = [value |-> dpath.end_z, z_units |-> dpath.end_z_units]
                /\ KindCount(r.bus, "DesiredZ") =
                     IF btrack.m_active /\ (\/ btrack.m_mstate \in {SM_UNSAFE, SM_AVOIDING}
                                            \/ btrack.m_forced # FC_NONE)
                     THEN 0 ELSE 1

\* C30 happens: the controller follows a depth reference, with CL_DEPTH and
\* CL_SPEED enabled, and accepts a path with an altitude reference: CL_DEPTH
\* is disabled, CL_ALTITUDE enabled, and the DesiredZ is published.
C30_Witness ==
  /\ pc_active
  /\ ~btd_enabled
  /\ {CL_DEPTH, CL_SPEED} \subseteq pc.m_aloops
  /\ \E dpath \in DesiredPathsOf(mission) :
       LET r == Path_consumeDesiredPath(PathCur, dpath)
       IN /\ dpath.end_z_units = Z_ALTITUDE
          /\ r.p.m_aloops \cap {CL_DEPTH, CL_ALTITUDE} = {CL_ALTITUDE}
          /\ \E i \in 1..Len(r.bus) :
               r.bus[i] = DesiredZMsg(dpath.end_z, Z_ALTITUDE)

\* C30 with the bottom tracker: an accepted altitude reference becomes the
\* reference of the active tracker.
C30_WitnessTracker ==
  /\ pc_active
  /\ btd_enabled
  /\ btrack.m_active
  /\ btrack.m_z_ref.z_units = Z_NONE
  /\ \E dpath \in DesiredPathsOf(mission) :
       Path_consumeDesiredPath(PathCur, dpath).bt.m_z_ref =
         [value |-> dpath.end_z, z_units |-> Z_ALTITUDE]

\* ---------------------------------------------------------------------------
\* Claims on the supervisor's commands, maneuver reports and timer: C23..C27.
\* ---------------------------------------------------------------------------

\* C23: a STOP_CALIBRATION request consumed while the supervisor is not in
\* CALIBRATION is answered with one FAILURE reply and leaves the operating
\* mode as it was.
C23_StopCalibrationRefused ==
  \A cmd \in VehicleCommands :
    (cmd.type = VC_REQUEST /\ cmd.command = VC_STOP_CALIBRATION /\ ~calibrationMode(Cur)) =>
      LET r == consumeVehicleCommand(Cur, cmd)
      IN /\ r.m_vs.op_mode = m_vs.op_mode
         /\ Len(r.bus) = 1
         /\ r.bus[1].msg = "VehicleCommand"
         /\ r.bus[1].type = VC_FAILURE
         /\ r.bus[1].request_id = cmd.request_id

BusIndex(b, m) == {i \in 1..Len(b) : b[i] = m}

\* C24: in MANEUVER, a ManeuverControlState ERROR from the local system
\* records last_error (the maneuver and the message's info) with the message's
\* timestamp, moves the supervisor to SERVICE and does the full reset:
\* StopManeuver and IdleManeuver are published and control_loops is cleared
\* before the new mode is reported.
C24_ManeuverErrorResetsBeforeReport ==
  maneuverMode(Cur) =>
    \A msg \in ManeuverControlStates :
      (msg.source = "local" /\ msg.state = "MCS_ERROR") =>
        LET r == consumeManeuverControlState(Cur, msg)
            reports == {i \in 1..Len(r.bus) : r.bus[i].msg = "VehicleState"}
        IN /\ r.m_vs.last_error = <<m_vs.maneuver_type, " maneuver error: ", msg.info>>
           /\ r.m_vs.last_error_time = msg.stamp
           /\ r.m_vs.op_mode = VS_SERVICE
           /\ r.m_vs.control_loops = {}
           /\ BusIndex(r.bus, m_stop) # {}
           /\ BusIndex(r.bus, m_idle) # {}
           /\ reports # {}
           /\ \A i \in reports :
                /\ r.bus[i].vs.op_mode = r.m_vs.op_mode
                /\ r.bus[i].vs.control_loops = {}
                /\ \A j \in BusIndex(r.bus, m_stop) \cup BusIndex(r.bus, m_idle) : j < i

\* The maneuver-done window is open: MANEUVER with MANEUVER_DONE reported.
ManeuverDone == maneuverMode(Cur) /\ VFLG_MANEUVER_DONE \in m_vs.flags

\* The handlers of the maneuver-done window, the mode the window's expiry
\* leads to being given by modeAfter(entity errors recorded or not): DONE from
\* the local system in MANEUVER sets MANEUVER_DONE and maneuver_eta = 0,
\* publishes VehicleState, keeps the mode and starts the timer; while the
\* window is open the timer is armed; a periodic task within c_man_timeout of
\* the DONE keeps the mode, the first one later does reset and changes the
\* mode; an EXEC_MANEUVER accepted in the window clears MANEUVER_DONE, disarms
\* the timer and keeps MANEUVER.
DoneWindow(modeAfter(_)) ==
  /\ maneuverMode(Cur) =>
       \A msg \in ManeuverControlStates :
         (msg.source = "local" /\ msg.state = "MCS_DONE") =>
           LET r == consumeManeuverControlState(Cur, msg)
           IN /\ VFLG_MANEUVER_DONE \in r.m_vs.flags
              /\ r.m_vs.maneuver_eta = 0
              /\ r.bus = <<VehicleStateMsg(r)>>
              /\ r.m_vs.op_mode = VS_MANEUVER
              /\ r.m_switch_time = now
  /\ ManeuverDone =>
       /\ m_switch_time >= 0
       /\ LET r == task(Cur)
          IN IF now - m_switch_time > c_man_timeout
             THEN /\ r.m_vs.op_mode = modeAfter(m_vs.error_count # 0)
                  /\ BusIndex(r.bus, m_stop) # {}
                  /\ BusIndex(r.bus, m_idle) # {}
                  /\ r.m_vs.control_loops = {}
                  /\ r.m_switch_time = -1
                  /\ VFLG_MANEUVER_DONE \notin r.m_vs.flags
                  /\ \A i \in 1..Len(r.bus) :
                       (r.bus[i].msg = "VehicleState" /\ r.bus[i].vs.op_mode # VS_MANEUVER)
                         => /\ r.bus[i].vs.control_loops = {}
                            /\ \A j \in BusIndex(r.bus, m_stop) \cup BusIndex(r.bus, m_idle) :
                                 j < i
             ELSE /\ r.m_vs = m_vs
                  /\ r.m_switch_time = m_switch_time
       /\ \A cmd \in VehicleCommands :
            (/\ cmd.type = VC_REQUEST
             /\ cmd.command = VC_EXEC_MANEUVER
             /\ cmd.maneuver # NullManeuver) =>
              LET r == consumeVehicleCommand(Cur, cmd)
              IN /\ r.m_vs.op_mode = VS_MANEUVER
                 /\ VFLG_MANEUVER_DONE \notin r.m_vs.flags
                 /\ r.m_switch_time = -1
                 /\ r.m_vs.maneuver_type = cmd.maneuver.id

ToService(err) == VS_SERVICE

ToServiceOrError(err) == IF err THEN VS_ERROR ELSE VS_SERVICE

\* C25 as stated: in MANEUVER a local ManeuverControlState DONE sets
\* MANEUVER_DONE and maneuver_eta = 0, publishes VehicleState and keeps the
\* mode; with no EXEC_MANEUVER accepted within 1.0 s the next periodic task
\* does reset and moves to SERVICE; an EXEC_MANEUVER accepted inside the
\* window clears MANEUVER_DONE, cancels the timer and keeps MANEUVER.
C25_DoneWindowEndsInService == DoneWindow(ToService)

\* C25: the same, the expiry of the window leading to SERVICE, or to ERROR
\* when the entity monitor reports errors (error_count is not 0; the reset has
\* ended the safe plan, so every entity counts).
C25_DoneWindowEndsInServiceOrError == DoneWindow(ToServiceOrError)

\* C25 happens: the maneuver reported DONE more than c_man_timeout ago, no
\* EXEC_MANEUVER followed, and the periodic task takes the supervisor to
\* SERVICE.
C25_Witness ==
  /\ ManeuverDone
  /\ now - m_switch_time > c_man_timeout
  /\ task(Cur).m_vs.op_mode = VS_SERVICE

\* C26: the in_safe_plan latch is false after every consumed Abort, in
\* whatever mode it arrives, and after every step that takes the supervisor
\* out of MANEUVER, whatever its cause.
C26_SafePlanCleared ==
  /\ [](\A msg \in Aborts : ~consumeAbort(Cur, msg).m_in_safe_plan)
  /\ [][(m_vs.op_mode = VS_MANEUVER /\ m_vs'.op_mode # VS_MANEUVER)
          => ~m_in_safe_plan']_vars

\* C27: the switch timer is armed (m_switch_time >= 0) only in CALIBRATION or
\* in MANEUVER with MANEUVER_DONE set; an accepted EXEC_MANEUVER leaves it
\* disarmed; a step that changes the mode leaves it disarmed, or, when the new
\* mode is CALIBRATION, armed at the time of the step; and whenever a step
\* arms or re-arms it, it is armed at the time of the step. So the
\* calibration expiry and the maneuver-done window are never armed together
\* and neither is measured from the other's start.
C27_OneSwitchTimer ==
  /\ [](/\ m_switch_time >= 0 => calibrationMode(Cur) \/ ManeuverDone
        /\ \A cmd \in VehicleCommands :
             (cmd.type = VC_REQUEST /\ cmd.command = VC_EXEC_MANEUVER) =>
               LET r == consumeVehicleCommand(Cur, cmd)
               IN BusIndex(r.bus, ReplyMsg(cmd, VC_SUCCESS, "maneuver started")) # {}
                    => maneuverMode(r) /\ r.m_switch_time = -1)
  /\ [][/\ m_vs'.op_mode # m_vs.op_mode =>
             m_switch_time' = IF m_vs'.op_mode = VS_CALIBRATION THEN now' ELSE -1
        /\ (m_switch_time' # m_switch_time /\ m_switch_time' >= 0) =>
             m_switch_time' = now']_vars

\* C27 happens: the maneuver-done window is open, its timer armed a second
\* ago, and a START_CALIBRATION request arrives: the calibration's timer
\* starts at the time of the request.
C27_Witness ==
  /\ ManeuverDone
  /\ m_switch_time >= 0
  /\ m_switch_time < now
  /\ \E cmd \in VehicleCommands :
       LET r == consumeVehicleCommand(Cur, cmd)
       IN /\ cmd.command = VC_START_CALIBRATION
          /\ calibrationMode(r)
          /\ r.m_switch_time = now

\* ---------------------------------------------------------------------------
\* The acoustic modem task, Sensors::MLBLTracker::Task: the operation in
\* progress and its deadline. Time is in whole seconds; the serial port is
\* seen as the NMEA sentences read from it and the commands written to it.
\* ---------------------------------------------------------------------------

\* The clock of the modem task stops at MaxModemTime.
MaxModemTime == 7

\* Timeout - Micro-Modem Ping, Timeout - Narrow Band Ping, Timeout - Abort.
tout_mmping == 5
tout_nbping == 5
tout_abort == 5

\* The systems of the sections Micro-Modem Addresses and Narrow Band
\* Transponders: one modem, one transponder with an abort frequency and one
\* without; "unknown" is in neither map.
m_ummap == {"lauv-1"}
m_nbmap == {"benthos-1", "benthos-2"}
WithAbortFreq == {"benthos-1"}
ModemSystems == m_ummap \cup m_nbmap \cup {"unknown"}

ModemCur ==
  [now |-> now, m_op |-> m_op, m_op_deadline |-> m_op_deadline,
   m_acop |-> m_acop, m_acop_out |-> m_acop_out, bus |-> <<>>]

Modem_dispatch(t, msg) == [t EXCEPT !.bus = Append(@, msg)]

\* dispatch(m_acop_out) after its op field was set.
Modem_report(t, op) ==
  LET t1 == [t EXCEPT !.m_acop_out.op = op]
  IN Modem_dispatch(t1, [kind |-> "AcousticOperation", op |-> op,
                         system |-> t1.m_acop_out.system])

Modem_reportFor(t, op, sys) ==
  Modem_report([t EXCEPT !.m_acop_out.system = sys], op)

\* Task::resetOp.
Modem_resetOp(t) == [t EXCEPT !.m_op = OP_NONE, !.m_op_deadline = -1]

\* Task::sendCommand.
Modem_sendCommand(t, cmd) == Modem_dispatch(t, [kind |-> "DevDataText", value |-> cmd])

RECURSIVE Modem_sendTimes(_, _, _)
Modem_sendTimes(t, cmd, n) ==
  IF n = 0 THEN t ELSE Modem_sendTimes(Modem_sendCommand(t, cmd), cmd, n - 1)

\* Task::abortNarrowBand: ten pings on the abort frequency, no operation is
\* left in progress.
Modem_abortNarrowBand(t, sys) ==
  Modem_report(Modem_sendTimes(Modem_reportFor(t, "AOP_ABORT_IP", sys), "$CCPNT", 10),
               "AOP_ABORT_TIMEOUT")

\* Task::abort; txd is what hasTransducer() finds.
Modem_abort(t, sys, txd) ==
  IF ~txd THEN Modem_report(t, "AOP_NO_TXD")
  ELSE IF sys \in m_nbmap /\ sys \notin WithAbortFreq
  THEN Modem_report(t, "AOP_UNSUPPORTED")
  ELSE LET t1 == IF sys \in m_nbmap THEN Modem_abortNarrowBand(t, sys) ELSE t
       IN IF sys \notin m_ummap
          THEN Modem_report(t1, "AOP_UNSUPPORTED")
          ELSE [Modem_sendCommand(t1, "$CCMUC") EXCEPT
                  !.m_op = OP_ABORT,
                  !.m_op_deadline = t.now + tout_abort]

\* Task::pingMicroModem.
Modem_pingMicroModem(t, sys) ==
  IF sys \notin m_ummap THEN t
  ELSE [Modem_sendCommand(t, "$CCMPC") EXCEPT
          !.m_op = OP_PING_MM,
          !.m_op_deadline = t.now + tout_mmping]

\* Task::pingNarrowBand.
Modem_pingNarrowBand(t, sys) ==
  IF sys \notin m_nbmap THEN t
  ELSE [Modem_sendCommand(t, "$CCPNT") EXCEPT
          !.m_op = OP_PING_NB,
          !.m_op_deadline = t.now + tout_nbping]

\* Task::ping.
Modem_ping(t, sys, txd) ==
  IF ~txd THEN Modem_report(t, "AOP_NO_TXD")
  ELSE IF sys \in m_ummap THEN Modem_pingMicroModem(t, sys)
  ELSE IF sys \in m_nbmap THEN Modem_pingNarrowBand(t, sys)
  ELSE Modem_reportFor(t, "AOP_UNSUPPORTED", sys)

\* Task::transmitMessage; plan says the inline message is a PlanControl that
\* starts a plan with a one-character name.
Modem_transmitMessage(t, sys, plan, txd) ==
  IF ~txd THEN Modem_report(t, "AOP_NO_TXD")
  ELSE IF sys \notin m_ummap \/ ~plan THEN t
  ELSE Modem_sendCommand(t, "$CCMUC")

\* Task::consume(const IMC::AcousticOperation*).
Modem_consumeAcousticOperation(t, msg, txd) ==
  IF t.m_op # OP_NONE THEN Modem_report(t, "AOP_BUSY")
  ELSE LET t1 == [t EXCEPT !.m_acop = [op |-> msg.op, system |-> msg.system]]
       IN CASE msg.op = "AOP_ABORT" -> Modem_abort(t1, msg.system, txd)
            [] msg.op = "AOP_RANGE" -> Modem_ping(t1, msg.system, txd)
            [] msg.op = "AOP_MSG" -> Modem_transmitMessage(t1, msg.system, msg.plan, txd)
            [] OTHER -> t1

\* Task::handleCAMPR, handleSNTTA, handleCAMUA, handleCAMPCSNPNT, handleCAMUC.
Modem_handleCAMPR(t, stn) ==
  IF ~stn.for_us THEN t
  ELSE Modem_resetOp(Modem_reportFor(t, "AOP_RANGE_RECVED", t.m_acop.system))

Modem_handleSNTTA(t, stn) ==
  IF ~stn.has_time THEN t
  ELSE Modem_resetOp(Modem_reportFor(t, "AOP_RANGE_RECVED", t.m_acop.system))

Modem_handleCAMUA(t, stn) ==
  IF stn.value = "c_code_abort_ack"
  THEN Modem_resetOp(Modem_reportFor(t, "AOP_ABORT_ACKED", t.m_acop.system))
  ELSE IF stn.value = "c_mask_qtrack"
  THEN Modem_dispatch(t, [kind |-> "LblRangeAcceptance"])
  ELSE t

Modem_handleCAMPCSNPNT(t, stn) == Modem_reportFor(t, "AOP_RANGE_IP", t.m_acop.system)

Modem_handleCAMUC(t, stn) ==
  IF stn.value = "c_code_abort"
  THEN Modem_reportFor(t, "AOP_ABORT_IP", t.m_acop.system)
  ELSE t

\* Task::readSentence.
Modem_readSentence(t, stn) ==
  LET t1 == Modem_dispatch(t, [kind |-> "DevDataText", value |-> stn.code])
  IN CASE stn.code = "CAMPR" -> Modem_handleCAMPR(t1, stn)
       [] stn.code = "CAMUA" -> Modem_handleCAMUA(t1, stn)
       [] stn.code \in {"CAMPC", "SNPNT"} -> Modem_handleCAMPCSNPNT(t1, stn)
       [] stn.code = "CAMUC" -> Modem_handleCAMUC(t1, stn)
       [] stn.code = "SNTTA" -> Modem_handleSNTTA(t1, stn)
       [] OTHER -> t1

\* checkTimeouts that reports the timeout and leaves the operation as it is.
Modem_checkTimeoutsKeepsOp(t) ==
  IF t.m_op = OP_NONE THEN t
  ELSE IF t.now > t.m_op_deadline
  THEN Modem_reportFor(t, IF t.m_op \in {OP_PING_NB, OP_PING_MM}
                          THEN "AOP_RANGE_TIMEOUT" ELSE "AOP_ABORT_TIMEOUT",
                       t.m_acop.system)
  ELSE t

\* Task::checkTimeouts.
Modem_checkTimeouts(t) ==
  IF t.m_op = OP_NONE THEN t
  ELSE IF t.now > t.m_op_deadline
  THEN LET t1 == [t EXCEPT !.m_acop_out.system = t.m_acop.system]
           t2 == IF t.m_op \in {OP_PING_NB, OP_PING_MM}
                 THEN [t1 EXCEPT !.m_acop_out.op = "AOP_RANGE_TIMEOUT"]
                 ELSE IF t.m_op = OP_ABORT
                 THEN [t1 EXCEPT !.m_acop_out.op = "AOP_ABORT_TIMEOUT"]
                 ELSE t1
       IN Modem_resetOp(
            Modem_dispatch(t2, [kind |-> "AcousticOperation", op |-> t2.m_acop_out.op,
                                system |-> t2.m_acop_out.system]))
  ELSE t

\* One turn of the loop of Task::onMain: the waiting messages are consumed,
\* a sentence is read when the port has one, and the deadline is checked.
RECURSIVE Modem_consumeMessages(_, _, _)
Modem_consumeMessages(t, msgs, txd) ==
  IF msgs = <<>> THEN t
  ELSE Modem_consumeMessages(Modem_consumeAcousticOperation(t, Head(msgs), txd),
                             Tail(msgs), txd)

NoSentence == [code |-> "none"]

Modem_onMain(t, msgs, stn, txd) ==
  LET t1 == Modem_consumeMessages(t, msgs, txd)
      t2 == IF stn = NoSentence THEN t1 ELSE Modem_readSentence(t1, stn)
  IN Modem_checkTimeouts(t2)

\* ------------------------------------------------------- the modem task runs
AcousticOperations ==
  [kind : {"AcousticOperation"}, op : {"AOP_ABORT", "AOP_RANGE"},
   system : ModemSystems, plan : {FALSE}]
  \cup [kind : {"AcousticOperation"}, op : {"AOP_MSG"},
        system : {"lauv-1"}, plan : BOOLEAN]

Sentences ==
  {[code |-> "CAMPR", for_us |-> b] : b \in BOOLEAN}
  \cup {[code |-> "SNTTA", has_time |-> b] : b \in BOOLEAN}
  \cup {[code |-> "CAMUA", value |-> v] : v \in {"c_code_abort_ack", "c_mask_qtrack"}}
  \cup {[code |-> c] : c \in {"CAMPC", "SNPNT"}}
  \cup {[code |-> "CAMUC", value |-> "c_code_abort"]}

\* An operation is started only when its deadline is within the clock's range.
ModemCommit(t) ==
  /\ t.m_op_deadline < MaxModemTime
  /\ m_op' = t.m_op
  /\ m_op_deadline' = t.m_op_deadline
  /\ m_acop' = t.m_acop
  /\ m_acop_out' = t.m_acop_out

ModemAcousticOperation ==
  \E msg \in AcousticOperations, txd \in BOOLEAN :
    /\ ModemCommit(Modem_onMain(ModemCur, <<msg>>, NoSentence, txd))
    /\ UNCHANGED <<supVars, now, manVars, pathVars>>

ModemSentence ==
  \E stn \in Sentences :
    /\ ModemCommit(Modem_onMain(ModemCur, <<>>, stn, TRUE))
    /\ UNCHANGED <<supVars, now, manVars, pathVars>>

ModemIdle ==
  /\ ModemCommit(Modem_onMain(ModemCur, <<>>, NoSentence, TRUE))
  /\ UNCHANGED <<supVars, now, manVars, pathVars>>

ModemTick ==
  /\ now < MaxModemTime
  /\ now' = now + 1
  /\ UNCHANGED <<supVars, manVars, pathVars, modemVars>>

ModemNext == ModemAcousticOperation \/ ModemSentence \/ ModemIdle \/ ModemTick

ModemInit == Init /\ safe_ents = <<>>

ModemSpec == ModemInit /\ [][ModemNext]_vars

\* The loop of onMain keeps turning and the clock keeps advancing.
ModemFairSpec == ModemSpec /\ WF_vars(ModemIdle) /\ WF_vars(ModemTick)

TimeoutOf(op) ==
  IF op \in {OP_PING_NB, OP_PING_MM} THEN "AOP_RANGE_TIMEOUT" ELSE "AOP_ABORT_TIMEOUT"

\* C22: every operation the modem task starts (narrow-band ping, micro-modem
\* ping, abort) ends. A deadline is armed exactly while an operation is in
\* progress; an operation in progress is neither replaced nor extended; when
\* the clock has passed the deadline, checkTimeouts publishes one timeout
\* event (RANGE_TIMEOUT for the pings, ABORT_TIMEOUT for abort) for the system
\* asked for and leaves OP_NONE with no deadline, so that it publishes nothing
\* more for that operation, and before the deadline it does nothing; and an
\* operation in progress always comes to OP_NONE, by a reply or the timeout.
C22_OperationsEnd ==
  /\ [](/\ (m_op = OP_NONE) <=> (m_op_deadline = -1)
        /\ LET r == Modem_checkTimeouts(ModemCur)
           IN IF m_op # OP_NONE /\ now > m_op_deadline
              THEN /\ r.bus = <<[kind |-> "AcousticOperation", op |-> TimeoutOf(m_op),
                                 system |-> m_acop.system]>>
                   /\ r.m_op = OP_NONE
                   /\ r.m_op_deadline = -1
                   /\ Modem_checkTimeouts(r) = r
              ELSE r = ModemCur)
  /\ [][/\ (m_op # OP_NONE /\ m_op' # OP_NONE) =>
             (m_op' = m_op /\ m_op_deadline' = m_op_deadline)
        /\ (m_op = OP_NONE /\ m_op' # OP_NONE) => m_op_deadline' >= now']_vars
  /\ (m_op # OP_NONE) ~> (m_op = OP_NONE)

\* C22 happens: an abort was started, no acknowledgement came, and the clock
\* is past the deadline: the next turn of the loop publishes ABORT_TIMEOUT.
C22_Witness ==
  /\ m_op = OP_ABORT
  /\ now > m_op_deadline
  /\ m_op_deadline = tout_abort
  /\ Modem_onMain(ModemCur, <<>>, NoSentence, TRUE).m_op = OP_NONE

\* ---------------------------------------------------------------------------
\* Claims on errors, braking, loitering and the ETA of the path controller and
\* on the states of its bottom tracker: C31..C34, C36, C38, C39.
\* ---------------------------------------------------------------------------

\* C31: once the path controller has signalled an error its entity state is
\* ERROR and it stops following the path: an EstimatedState changes nothing of
\* the tracking state, of the monitors or of the report time and publishes no
\* PathControlState; the error lasts until the controller is activated or
\* deactivated, and both clear it.
C31_ErrorStopsPathFollowing ==
  /\ []((pc.m_error /\ ~pc.m_setup) =>
          /\ pc.entity.state = "ESTA_ERROR"
          /\ \A es \in EstimatedStates :
               LET r == Path_consumeEstimatedState(PathCur, es)
               IN /\ r.p.m_ts = pc.m_ts
                  /\ r.p.m_atm = pc.m_atm
                  /\ r.p.m_ctm = pc.m_ctm
                  /\ r.p.m_running_monitors = pc.m_running_monitors
                  /\ r.p.m_last_pcs_report = pc.m_last_pcs_report
                  /\ r.p.m_error
                  /\ r.p.entity = pc.entity
                  /\ PathControlStates(r.bus) = {})
  /\ [](\A cloops \in PathControlLoopsMsgs :
          LET r == Path_consumeControlLoops(PathCur, cloops)
          IN r.active # pc_active =>
               ~r.p.m_error /\ r.p.entity.state # "ESTA_ERROR")
  /\ [][(pc.m_error /\ ~pc'.m_error) => pc_active' # pc_active]_vars

\* C31 happens: the active, tracking controller is in error after a
\* divergence, and a control period has passed when the next EstimatedState
\* comes.
C31_Witness ==
  /\ pc_active
  /\ pc.m_tracking
  /\ pc.m_error
  /\ pc.entity = AlongTrackError
  /\ ~pc.m_ts.nearby
  /\ now >= pc.m_ts.now + m_cperiod

\* The new-reference timeout ends the control step before the monitors.
NewReferenceLate == pc.m_ts.nearby /\ now - pc.m_ts.end_time >= c_new_ref_timeout

\* C32: while the path controller is braking a control step evaluates neither
\* monitor and signals no divergence error; the first control step after
\* braking has ended restarts both monitors from the nominal state, the
\* along-track check being due a period later, and signals no error; and the
\* along-track monitor is not evaluated while loitering.
C32_NoMonitorsWhileBraking ==
  Processed(PathCur) =>
    \A es \in EstimatedStates :
      LET r == Path_consumeEstimatedState(PathCur, es)
      IN /\ pc.m_braking =>
              /\ r.p.m_atm = pc.m_atm
              /\ r.p.m_ctm = pc.m_ctm
              /\ r.p.m_error => (NewReferenceLate /\ r.p.entity = NewReferenceError)
              /\ ~NewReferenceLate => ~r.p.m_running_monitors
         /\ (~pc.m_braking /\ ~pc.m_running_monitors /\ ~NewReferenceLate) =>
              /\ r.p.m_running_monitors
              /\ ~r.p.m_error
              /\ ~pc.m_ts.loitering =>
                   r.p.m_atm = [diverging |-> FALSE, time |-> now + m_atm_period,
                                last_err |-> r.p.m_ts.track_pos.x,
                                last_course_err |-> Abs(r.p.m_ts.course_error)]
              /\ r.p.m_ctm.diverging => r.p.m_ctm.divergence_started = now
         /\ pc.m_ts.loitering =>
              /\ r.p.m_atm = pc.m_atm
              /\ r.p.entity # AlongTrackError

\* C32 happens: the vehicle was diverging along the track when it started to
\* brake, and the check that would signal the error is due.
C32_Witness ==
  /\ Processed(PathCur)
  /\ pc.m_braking
  /\ ~NewReferenceLate
  /\ pc.m_atm.diverging
  /\ now >= pc.m_atm.time
  /\ \E es \in EstimatedStatesOf(mission) :
       Path_controlStepMonitorsAlways(PathCur, es).p.m_error

\* C32, the restart: braking has ended with the cross-track monitor left
\* diverging, and a control step is due.
C32_WitnessRestart ==
  /\ Processed(PathCur)
  /\ ~pc.m_braking
  /\ ~pc.m_running_monitors
  /\ pc.m_ctm.diverging
  /\ ~NewReferenceLate

\* What the tracker can be shown below and ahead of the vehicle: the bottom
\* near or far, the vehicle shallow or deep, an echo that may be the surface,
\* a low forward range, a steep slope.
Soundings ==
  {EstimatedStateMsg(OnTrack(0),
     [FreeWater EXCEPT !.alt = a, !.depth = d, !.surface = s,
                       !.range_low = rl, !.too_steep = ts]) :
     a \in {5, 30}, d \in {2, 20}, s \in BOOLEAN, rl \in BOOLEAN, ts \in BOOLEAN}

\* The altitude can be used once the tracker has seen the sounding.
AltitudeUsable(es) == BT_isAltitudeValid(PathCur, es).bt.m_valid_alt

\* The tracker has braked and is in AVOIDING.
BrakesAndAvoids(r) ==
  /\ r.bus = <<BrakeMsg("OP_START")>>
  /\ r.loop = Append(pc_loop, BrakeMsg("OP_START"))
  /\ r.bt.m_mstate = SM_AVOIDING

\* The tracker has stopped braking, has dispatched the stored reference again
\* and is in TRACKING.
ResumesTracking(r) ==
  /\ r.bus = <<BrakeMsg("OP_STOP"),
               DesiredZMsg(btrack.m_z_ref.value, btrack.m_z_ref.z_units)>>
  /\ r.loop = Append(pc_loop, BrakeMsg("OP_STOP"))
  /\ r.bt.m_z_ref = btrack.m_z_ref
  /\ r.bt.m_mstate = SM_TRACKING

\* The vehicle is above its altitude reference over a safe slope.
SafeAboveReference(es) ==
  /\ ~es.too_steep
  /\ btrack.m_z_ref.z_units = Z_ALTITUDE
  /\ es.alt >= btrack.m_z_ref.value

BeforeLoiterTest(es) ==
  Path_updateTrackingState([PathCur EXCEPT !.p.m_ts.now = now], es).p.m_ts

\* C34: a control step that comes to its end with loitering false, nearby true
\* and a positive loiter radius enters the loiter: the track end becomes the
\* loiter centre, loitering true and nearby false.  Loitering and nearby are
\* never both true, so that the new-reference timeout does not fire while
\* loitering, and only an accepted DesiredPath ends the loiter.
C34_LoiterEntryAndExclusion ==
  /\ [](/\ ~(pc.m_ts.loitering /\ pc.m_ts.nearby)
        /\ pc.m_ts.loitering => ~NewReferenceLate
        /\ (Processed(PathCur) /\ ~NewReferenceLate) =>
             \A es \in EstimatedStates :
               LET r == Path_consumeEstimatedState(PathCur, es)
                   ts == BeforeLoiterTest(es)
               IN /\ (~ts.loitering /\ ts.nearby /\ ts.lradius > 0) =>
                       /\ r.p.m_ts.loitering
                       /\ ~r.p.m_ts.nearby
                       /\ r.p.m_ts.end = pc.m_pcs_end
                       /\ pc.m_ts.end = "circle"
                  /\ (r.p.m_ts.loitering /\ ~pc.m_ts.loitering) =>
                       ts.nearby /\ ts.lradius > 0
                  /\ (pc.m_ts.loitering /\ pc.entity # NewReferenceError) =>
                       r.p.entity # NewReferenceError
                  /\ pc.m_ts.loitering => r.p.m_ts.loitering /\ ~r.p.m_ts.nearby)
  /\ [][(pc.m_ts.loitering /\ pc' # pc) =>
          \/ pc'.m_ts.loitering /\ ~pc'.m_ts.nearby
          \/ \E dpath \in DesiredPaths :
               /\ pc_active /\ ~pc.m_error
               /\ pc' = Path_consumeDesiredPath(PathCur, dpath).p]_vars

\* C34 happens: the vehicle loiters around the end of its path, longer than
\* the new-reference timeout after it came near, and a control step is due.
C34_Witness ==
  /\ pc.m_ts.loitering
  /\ pc.m_ts.end = pc.m_pcs_end
  /\ Processed(PathCur)
  /\ now - pc.m_ts.end_time >= c_new_ref_timeout

\* C36: the ETA of the tracking state, and every ETA a PathControlState
\* reports, is within 0..65535, whether or not nearby was asserted before the
\* update.
C36_EtaInRange ==
  /\ pc.m_ts.eta \in 0..65535
  /\ \A es \in EstimatedStates :
       LET r == Path_consumeEstimatedState(PathCur, es)
       IN /\ r.p.m_ts.eta \in 0..65535
          /\ \A i \in PathControlStates(r.bus) : r.bus[i].eta \subseteq 0..65535

\* C36, the case it fails in: the vehicle is still within c_time_factor of
\* the end of the track at the control step after the one that asserted
\* nearby.
C36_NegativeEta ==
  /\ pc.m_ts.nearby
  /\ ~pc.m_ts.loitering
  /\ pc.m_ts.eta < 0

\* The Z references a handler has published.
DesiredZsOn(b) == SelectSeq(b, LAMBDA m : m.kind = "DesiredZ")

\* The tracker withholds the references of the upper layer.
Withholding ==
  \/ btrack.m_mstate \in {SM_UNSAFE, SM_AVOIDING}
  \/ btrack.m_forced # FC_NONE

\* C38: while the tracker is active, the Z reference of an accepted
\* DesiredPath becomes the reference the tracker restores later; it is not
\* published in UNSAFE or AVOIDING or while depth control is forced, and in
\* every other state it is published exactly once.  A DesiredZ received from
\* the bus is stored and never published again.
C38_ReferenceStoredAndPublished ==
  (btd_enabled /\ pc_active /\ btrack.m_active) =>
    /\ \A dpath \in {d \in DesiredPaths : "FL_NO_Z" \notin d.flags} :
         LET r == Path_consumeDesiredPath(PathCur, dpath)
             zref == DesiredZMsg(dpath.end_z, dpath.end_z_units)
         IN /\ r.bt.m_z_ref = [value |-> zref.value, z_units |-> zref.z_units]
            /\ r.bt.m_mstate = btrack.m_mstate
            /\ DesiredZsOn(r.bus) = IF Withholding THEN <<>> ELSE <<zref>>
    /\ \A zref \in DesiredZs :
         LET r == Path_consumeDesiredZ(PathCur, zref)
         IN /\ r.bt.m_z_ref = [value |-> zref.value, z_units |-> zref.z_units]
            /\ r.bus = <<>>
            /\ [r EXCEPT !.bt.m_z_ref = btrack.m_z_ref] = PathCur

\* C38 happens: the tracker is avoiding the bottom, or forcing depth control,
\* under an altitude reference when the next path can be accepted.
C38_Witness ==
  /\ btd_enabled /\ pc_active /\ btrack.m_active
  /\ btrack.m_z_ref.z_units = Z_ALTITUDE
  /\ btrack.m_mstate \in {SM_AVOIDING, SM_DEPTH}
  /\ btrack.m_mstate = SM_DEPTH => btrack.m_forced = FC_DEPTH

\* C38, the other case: the tracker is tracking and not withholding.
C38_WitnessPublished ==
  /\ btd_enabled /\ pc_active /\ btrack.m_active
  /\ btrack.m_mstate = SM_TRACKING
  /\ ~Withholding

\* The forced-control reason is DEPTH exactly in the state DEPTH.
ForcedIffDepth(bt) == (bt.m_forced = FC_DEPTH) <=> (bt.m_mstate = SM_DEPTH)

\* C39: the forced-control reason of the tracker is DEPTH exactly when its
\* state is DEPTH.  DEPTH is entered only from TRACKING, with the limit depth
\* dispatched; every step of the state machine out of DEPTH clears the
\* reason; and the exit of DEPTH for altitude units without a forcing reason
\* is never taken.
C39_ForcedExactlyInDepth ==
  /\ [](/\ ForcedIffDepth(btrack)
        /\ btrack.m_mstate = SM_DEPTH =>
             ~(btrack.m_z_ref.z_units = Z_ALTITUDE /\ btrack.m_forced # FC_DEPTH)
        /\ ForcedIffDepth(BT_reset(PathCur).bt)
        /\ \A es \in Soundings \cup EstimatedStates :
             LET r == BT_updateStateMachine(PathCur, es)
             IN /\ ForcedIffDepth(r.bt)
                /\ (r.bt.m_mstate = SM_DEPTH /\ btrack.m_mstate # SM_DEPTH) =>
                     /\ btrack.m_mstate = SM_TRACKING
                     /\ r.bus = <<DesiredZMsg(btd_depth_limit, Z_DEPTH)>>
                /\ (btrack.m_mstate = SM_DEPTH /\ r.bt.m_mstate # SM_DEPTH) =>
                     /\ r.bt.m_mstate \in {SM_TRACKING, SM_IDLE, SM_AVOIDING}
                     /\ r.bt.m_forced = FC_NONE)
  /\ [][(btrack'.m_mstate = SM_DEPTH /\ btrack.m_mstate # SM_DEPTH) =>
          btrack.m_mstate = SM_TRACKING /\ btrack'.m_forced = FC_DEPTH]_vars

\* C39 happens: the tracker forces depth control in very deep water and the
\* upper layer asks for altitude.
C39_Witness ==
  /\ btrack.m_active
  /\ btrack.m_mstate = SM_DEPTH
  /\ btrack.m_forced = FC_DEPTH
  /\ btrack.m_z_ref.z_units = Z_ALTITUDE
  /\ \E es \in EstimatedStatesOf(mission) :
       BT_updateStateMachine(PathCur, es).bt.m_mstate = SM_TRACKING

\* ---------------------------------------------------------------------------
\* Claims on the locking discipline and on the loops of EXTERNAL: C35, C37.
\* ---------------------------------------------------------------------------

\* What the step a maneuver task is about to take publishes and locks.
NextEvents(t) ==
  IF man_pc[t] = "handle"
  THEN {Loiter_consumeLoiter(Maneuver_signalProgress(ManCur, t), t, man_msg[t]).events}
  ELSE IF man_pc[t] = "main"
  THEN {Maneuver_consumeIfActive(ManCur, t, pcs).events : pcs \in PathControlStateMsgs}
       \cup {Maneuver_consumeStopManeuver(ManCur, t).events}
  ELSE {}

\* C35: no task holds more than one mutex at a time and no task holds a mutex
\* while it publishes: whenever a maneuver task publishes, or takes the lock
\* of the active-control-loop mask, it holds no mutex, the maneuver lock
\* included.
C35_NoMutexAcrossPublish ==
  \A t \in ManeuverTasks :
    \A events \in NextEvents(t) :
      \A i \in 1..Len(events) : events[i].held = {}

\* C35, the case it fails in: a maneuver task has been granted the maneuver
\* lock and is about to handle its maneuver, which changes the control loops.
C35_HandlesUnderLock ==
  \E t \in ManeuverTasks :
    /\ man_pc[t] = "handle"
    /\ s_man_lock = t
    /\ s_amask = {}

\* C37: whenever the supervisor is in EXTERNAL its control_loops mask is not
\* empty: a step that empties the mask in EXTERNAL leaves EXTERNAL, and
\* EXTERNAL is entered with a loop enabled.
C37_ExternalHasLoops ==
  /\ [](m_vs.op_mode = VS_EXTERNAL => m_vs.control_loops # {})
  /\ [][(m_vs.op_mode = VS_EXTERNAL /\ m_vs'.control_loops = {}) =>
          m_vs'.op_mode # VS_EXTERNAL]_vars
  /\ [][(m_vs.op_mode # VS_EXTERNAL /\ m_vs'.op_mode = VS_EXTERNAL) =>
          m_vs'.control_loops # {}]_vars

\* C37 happens: the supervisor is in EXTERNAL with overridable loops only and
\* an entity in error, so that each of the steps that empty the mask can act.
C37_Witness ==
  /\ m_vs.op_mode = VS_EXTERNAL
  /\ m_vs.control_loops = {CL_PATH}
  /\ m_vs.error_count # 0
  /\ \E msg \in ControlLoopsMsgs :
       LET r == consumeControlLoops(Cur, msg)
       IN r.m_vs.control_loops = {} /\ r.m_vs.op_mode = VS_SERVICE

====
